---- MODULE Spec2Model ----
(***************************************************************************)
(* NamespaceClass operator: the Namespace controller, which keeps one      *)
(* NamespaceClassBinding per labelled namespace, and the                    *)
(* NamespaceClassBinding controller, which prunes and applies the          *)
(* resources of the referenced NamespaceClass and records what it did in   *)
(* the binding's status.                                                   *)
(*                                                                         *)
(* The source holds two versions of the binding controller.  The variable  *)
(* variant fixes which one runs:                                           *)
(*   "modular": Reconcile of namespaceclassbinding_controller.go:465 with  *)
(*              the helpers of namespaceclassbinding.go (class switch,     *)
(*              explicit cleanup, events, no conditions);                  *)
(*   "inline":  Reconcile of namespaceclassbinding_controller.go:77 with   *)
(*              pruneResources/applyResources/updateStatus/setCondition.   *)
(* One namespace is modelled; its binding has the namespace's name.        *)
(*                                                                         *)
(* Every action is one blocking store call of a controller, together with  *)
(* the local computation that follows it up to the next call; between two  *)
(* calls of a pass anybody else may take a step.                           *)
(*                                                                         *)
(* Specifications: Spec (both controllers, administrators, users and the   *)
(* garbage collector from an empty cluster), FairSpec (Spec with fair      *)
(* scheduling), PassSpec (the binding controller alone from any stored     *)
(* binding, class and objects), LadderSpec (the apply step on any stored   *)
(* object), RaceSpec (a label change beside a pass of the binding) and     *)
(* StatusSpec (the status write beside another writer).                    *)
(***************************************************************************)
EXTENDS Integers, Sequences, FiniteSets, TLC

(* ------------------------------ bounds --------------------------------- *)
\* highest generation a NamespaceClass reaches by updates
MaxGen == 2
\* number of bindings the namespace has had when an apply step starts on
\* stored objects (each binding gets a fresh uid; from an empty cluster the
\* number of bindings is bounded by the number of label changes)
MaxUid == 2
\* number of store calls that fail with an error other than not-found
MaxFailures == 1
\* number of changes administrators and users make (labels, classes, objects)
MaxChanges == 4

(* --------------------------- values ------------------------------------ *)
ClassNames == {"A", "B"}
\* the name of the namespace
NsName == "ns"
Variants == {"modular", "inline"}

\* Raw manifests a NamespaceClass may list.  data stands for the rest of
\* the document, passed through to the apply call; namespace is the
\* metadata.namespace the manifest names; immutable says that the object
\* it describes refuses later changes of its content (immutable: true);
\* controller says that the manifest's own metadata.ownerReferences name a
\* controller.
cmA1 == [apiVersion |-> "v1", kind |-> "ConfigMap", name |-> "a", data |-> 1,
         namespace |-> "", immutable |-> FALSE, controller |-> FALSE]
cmA2 == [apiVersion |-> "v1", kind |-> "ConfigMap", name |-> "a", data |-> 2,
         namespace |-> "other", immutable |-> FALSE, controller |-> FALSE]
cmB1 == [apiVersion |-> "v1", kind |-> "ConfigMap", name |-> "b", data |-> 1,
         namespace |-> "", immutable |-> FALSE, controller |-> FALSE]
cmB2 == [apiVersion |-> "v1", kind |-> "ConfigMap", name |-> "b", data |-> 2,
         namespace |-> "", immutable |-> TRUE, controller |-> FALSE]
\* an entry with no bytes and no object
EmptyRaw == [apiVersion |-> "", kind |-> "", name |-> "", data |-> 0,
             namespace |-> "", immutable |-> FALSE, controller |-> FALSE]
\* bytes that are not a JSON document
cmBroken == [EmptyRaw EXCEPT !.data = -1]
\* a manifest whose ownerReferences name a controller of its own
cmOwned == [cmA1 EXCEPT !.controller = TRUE]

\* The resource lists administrators write into NamespaceClasses.
ResourceLists == { <<cmA1>>, <<cmB1>>, <<cmB1, cmA2>>, <<EmptyRaw, cmB1>> }

reasonReconcileSuccess == "ReconcileSuccess"
reasonClassNotFound == "ClassNotFound"
reasonPruneFailed == "PruneFailed"
reasonApplyFailed == "ApplyFailed"

\* AppliedResource of the binding status.
AppliedResource(apiVersion, kind, name) ==
    [apiVersion |-> apiVersion, kind |-> kind, name |-> name]

\* getKey / resourceKey: the three identity fields joined by a separator.
getKey(apiVersion, kind, name) == <<apiVersion, kind, name>>

\* extractMetaOnly / extractMetadata: the identity fields of a raw entry
\* (all empty for an entry without data).
extractMetaOnly(raw) == <<raw.apiVersion, raw.kind, raw.name>>

\* json.Unmarshal / UnmarshalJSON return an error for the bytes of the entry
Malformed(raw) == raw.data < 0

IsComplete(meta) == meta[1] # "" /\ meta[2] # "" /\ meta[3] # ""

RawKey(raw) == getKey(raw.apiVersion, raw.kind, raw.name)
AppliedKey(ar) == getKey(ar.apiVersion, ar.kind, ar.name)

Keys == { RawKey(cmA1), RawKey(cmB1) }

\* an absent object of the namespace
NoRes == [owner |-> -1, data |-> 0, held |-> FALSE, immutable |-> FALSE, ns |-> ""]
\* an absent NamespaceClass (the store's generations start at 1)
NoClass == [gen |-> 0, resources |-> <<>>]

\* no Ready condition; message holds the values the text is built from: a
\* count, a name or step, the text of the error, and the identity of the
\* entry the error names
NoCond == [status |-> FALSE, reason |-> "", message |-> <<0, "", "", <<"", "", "">>>>]
EmptyStatus == [observedClassName |-> "", observedClassGeneration |-> 0,
                appliedResources |-> <<>>, cond |-> NoCond]
\* no NamespaceClassBinding in the namespace
NoBinding == [uid |-> 0, name |-> "", owner |-> "", className |-> "", status |-> EmptyStatus]

Range(s) == { s[i] : i \in 1..Len(s) }
AppliedKeys(applied) == { AppliedKey(applied[i]) : i \in 1..Len(applied) }
\* keys of the entries that carry apiVersion, kind and name
DesiredKeys(raws) ==
    { RawKey(raws[i]) : i \in { j \in 1..Len(raws) : IsComplete(extractMetaOnly(raws[j])) } }

VARIABLES
    variant,     \* which version of the binding controller runs
    nsState,     \* the namespace: "present", "terminating" (deletionTimestamp set), "absent"
    label,       \* value of namespaceclass.akuity.io/name on the namespace ("" if absent)
    classes,     \* NamespaceClass name -> [gen, resources]
    binding,     \* the namespace's NamespaceClassBinding, or NoBinding
    resources,   \* key -> object in the namespace, or NoRes
    nextUid,     \* uid the next created binding gets
    failures,    \* failed store calls so far
    changes,     \* changes made by administrators and users so far
    nsQueued,    \* a Namespace reconcile request is pending
    queued,      \* a NamespaceClassBinding reconcile request is pending
    p,           \* the binding controller's pass: position and locals
    w            \* the Namespace controller's pass that just returned

vars == <<w, nsState, variant, label, classes, binding, resources, nextUid, failures, changes, nsQueued, queued, p>>

(* ------------------------- the pass record ----------------------------- *)
NoSnapshot == [name |-> "", gen |-> 0, resources |-> <<>>]
\* No pass in flight and nothing remembered of the last one.  While pc is
\* "idle" and result is not "none" the record describes the pass that just
\* returned (nothing else has happened since).
Blank == [pc |-> "idle",          \* the store call that comes next: idle (Get binding),
                                   \* getClass, notfound, switch, prune (a Delete each),
                                   \* deleteBinding, apply, force, owned, recreate, wait
                                   \* (the Get of a round), sleep (its select), create,
                                   \* commit, cond (Get of a status write), patch
          i |-> 0,                 \* the entry the loop under way is at
          start |-> [k \in Keys |-> NoRes],  \* the namespace's objects when the apply step began
          write |-> "none",        \* the status write under way: commit, or a failure reason
          own |-> EmptyStatus,     \* the status of the binding in hand (after setCondition)
          b |-> NoBinding,         \* the binding object fetched at the start
          class |-> NoSnapshot,    \* the NamespaceClass object fetched at the start
          path |-> "none",         \* nobinding, readerr, notfound, skip, switch, update
          result |-> "none",       \* ok / err as returned to the caller
          step |-> "none",         \* the step that returned the error
          applied |-> <<>>,        \* what applyResources returned
          deleted |-> {},          \* keys whose Delete call returned nil or not-found
          stray |-> {},            \* deleted objects that were not owned by binding b
          patched |-> {},          \* keys whose apply call succeeded
          created |-> {},          \* patched keys that were absent when patched
          pruned |-> {},           \* keys whose Delete call in the prune step returned nil or not-found
          calls |-> <<>>,          \* the store calls of the apply step, in order: <<call, key>>
          polls |-> 0,             \* reads made by the last waitForDeletion
          errKind |-> "none",      \* the kind of the error the apply step returned
          base |-> EmptyStatus,    \* the status the status write read before patching
          statusWrites |-> 0,      \* status patches that changed the stored binding
          bindingDeleted |-> FALSE,\* the pass deleted the binding
          events |-> {},           \* reasons recorded through the event recorder
          storeFail |-> FALSE,     \* a store call of the pass failed
          pre |-> FALSE,           \* the objects the binding owned when the pass started
                                   \* were exactly those its status listed
          mixed |-> FALSE,         \* somebody else wrote the binding, the namespace or one
                                   \* of its objects during the pass
          touched |-> FALSE,       \* the binding's spec or the class changed during the pass
          follows |-> "none",      \* prev as it was when the pass started
          prev |-> "none"]         \* while idle: "clean" when the last pass returned ok and
                                   \* neither the binding's spec nor its class changed since
                                   \* that pass read them, "mid" when they changed only while
                                   \* it was in flight, else "none"

Returned == p.pc = "idle" /\ p.result # "none"
InFlight == p.pc # "idle"

\* what is left of the pass record after a step of somebody else; relevant
\* says that the step changed the binding's spec or the class it names
Others(relevant) ==
    IF p.pc = "idle"
    THEN [Blank EXCEPT !.prev = IF relevant THEN "none" ELSE p.prev]
    ELSE [p EXCEPT !.touched = p.touched \/ relevant]

\* Others after a step that wrote the binding, the namespace or one of its
\* objects
Wrote(relevant) ==
    IF p.pc = "idle" THEN Others(relevant)
    ELSE [Others(relevant) EXCEPT !.mixed = TRUE]

\* a change of NamespaceClass n concerns the pass or the binding
Concerns(n) == (binding.uid # 0 /\ binding.className = n) \/ (p.pc # "idle" /\ p.class.name = n)

\* may one more store call fail?
FailChoices == IF failures < MaxFailures THEN {FALSE, TRUE} ELSE {FALSE}

Exists(res, k) == res[k] # NoRes
\* objects of the namespace whose controller owner reference names uid
ManagedKeys(res, uid) == { k \in Keys : Exists(res, k) /\ res[k].owner = uid }

(* --------------------------- environment ------------------------------- *)
\* findBindingsForClass: the bindings whose spec.className is the class; no
\* request at all when the List call fails.
findBindingsForClass(b, name, listErr) ==
    IF listErr THEN FALSE ELSE b.uid # 0 /\ b.className = name

\* may the List call of findBindingsForClass fail?  (a failure shows only
\* when a binding references the class)
ListFailChoices(n) ==
    IF failures < MaxFailures /\ binding.uid # 0 /\ binding.className = n
    THEN {FALSE, TRUE} ELSE {FALSE}

\* nothing remembered of the Namespace controller
NoWatch == [pc |-> "idle",         \* the store call that comes next: idle (Get namespace),
                                   \* getBinding, write
            stale |-> FALSE,       \* the stored binding was written since the pass read it
            path |-> "none",       \* nserr, nsnotfound, deleting, nothing, delete, create, update, insync
            result |-> "none",     \* ok / err as returned to the caller
            events |-> <<>>,       \* reasons recorded through the event recorder, in order
            writes |-> 0,          \* store writes that succeeded (a Delete that is
                                   \* answered not-found is none)
            fail |-> "none",       \* the store call that failed: getNamespace, getBinding, write
            ns |-> "none",         \* the state of the namespace the pass read
            label |-> "",          \* the label value the pass read
            before |-> NoBinding]  \* the stored binding when the pass read it
                                   \* (until then: when the pass started)

\* what is left of the Namespace controller's record after a step of
\* somebody else: a pass under way goes on (written says that the step wrote
\* the stored binding), a pass that returned is forgotten
Seen(written) ==
    IF w.pc = "idle" THEN NoWatch ELSE [w EXCEPT !.stale = @ \/ written]

\* kubectl label namespace: add, change or remove the class label; the store
\* accepts it at any time, and the update event queues the Namespace
\* controller's request
SetLabel(l) ==
    /\ changes < MaxChanges
    /\ changes' = changes + 1
    /\ nsState = "present"
    /\ l # label
    /\ label' = l
    /\ nsQueued' = TRUE
    /\ p' = Others(FALSE)
    /\ w' = Seen(FALSE)
    /\ UNCHANGED <<nsState, variant, classes, binding, resources, nextUid, failures, queued>>

\* kubectl delete namespace: the deletion timestamp is set (the label does
\* not change, so the Namespace controller's predicate drops the event)
DeleteNamespace ==
    /\ changes < MaxChanges
    /\ changes' = changes + 1
    /\ nsState = "present"
    /\ nsState' = "terminating"
    /\ p' = Wrote(FALSE)
    /\ w' = Seen(FALSE)
    /\ UNCHANGED <<variant, label, classes, binding, resources, nextUid, failures, nsQueued, queued>>

\* the store removes the content of the terminating namespace, then the
\* namespace itself (its delete event is dropped by the predicate)
FinalizeNamespace ==
    /\ nsState = "terminating"
    /\ nsState' = "absent"
    /\ label' = ""
    /\ binding' = NoBinding
    /\ resources' = [k \in Keys |-> NoRes]
    /\ queued' = (queued \/ binding.uid # 0)
    /\ p' = Wrote(binding.uid # 0)
    /\ w' = Seen(binding.uid # 0)
    /\ UNCHANGED <<variant, changes, classes, nextUid, failures, nsQueued>>

\* an administrator creates a NamespaceClass
CreateClass(n, rl) ==
    /\ changes < MaxChanges
    /\ changes' = changes + 1
    /\ classes[n] = NoClass
    /\ classes' = [classes EXCEPT ![n] = [gen |-> 1, resources |-> rl]]
    /\ \E f \in ListFailChoices(n) :
         /\ queued' = (queued \/ findBindingsForClass(binding, n, f))
         /\ failures' = failures + (IF f THEN 1 ELSE 0)
    /\ p' = Others(Concerns(n))
    /\ w' = Seen(FALSE)
    /\ UNCHANGED <<nsState, variant, label, binding, resources, nextUid, nsQueued>>

\* an administrator changes spec.resources; the store increments the generation
UpdateClass(n, rl) ==
    /\ changes < MaxChanges
    /\ changes' = changes + 1
    /\ classes[n] # NoClass
    /\ classes[n].resources # rl
    /\ classes[n].gen < MaxGen
    /\ classes' = [classes EXCEPT ![n] = [gen |-> classes[n].gen + 1, resources |-> rl]]
    /\ \E f \in ListFailChoices(n) :
         /\ queued' = (queued \/ findBindingsForClass(binding, n, f))
         /\ failures' = failures + (IF f THEN 1 ELSE 0)
    /\ p' = Others(Concerns(n))
    /\ w' = Seen(FALSE)
    /\ UNCHANGED <<nsState, variant, label, binding, resources, nextUid, nsQueued>>

\* an administrator deletes a NamespaceClass
DeleteClass(n) ==
    /\ changes < MaxChanges
    /\ changes' = changes + 1
    /\ classes[n] # NoClass
    /\ classes' = [classes EXCEPT ![n] = NoClass]
    /\ \E f \in ListFailChoices(n) :
         /\ queued' = (queued \/ findBindingsForClass(binding, n, f))
         /\ failures' = failures + (IF f THEN 1 ELSE 0)
    /\ p' = Others(Concerns(n))
    /\ w' = Seen(FALSE)
    /\ UNCHANGED <<nsState, variant, label, binding, resources, nextUid, nsQueued>>

\* a user creates an object of their own in the namespace (no owner
\* reference; its content is held by the user's field manager)
UserCreate(k) ==
    /\ changes < MaxChanges
    /\ changes' = changes + 1
    /\ nsState = "present"
    /\ ~Exists(resources, k)
    /\ resources' = [resources EXCEPT ![k] =
           [owner |-> 0, data |-> 3, held |-> TRUE, immutable |-> FALSE, ns |-> NsName]]
    /\ p' = Wrote(FALSE)
    /\ w' = Seen(FALSE)
    /\ UNCHANGED <<nsState, variant, label, classes, binding, nextUid, failures, nsQueued, queued>>

\* the store's garbage collector removes an object whose owner is gone
Cascade(k) ==
    /\ Exists(resources, k)
    /\ resources[k].owner > 0
    /\ resources[k].owner # binding.uid
    /\ resources' = [resources EXCEPT ![k] = NoRes]
    /\ p' = Wrote(FALSE)
    /\ w' = Seen(FALSE)
    /\ UNCHANGED <<nsState, variant, changes, label, classes, binding, nextUid, failures, nsQueued, queued>>

(* ------------------------ Namespace controller ------------------------- *)
\* a variant that rewrites the binding whenever a label and a binding exist
decide_resync(desiredClass, bindingExists, className) ==
    IF desiredClass = "" /\ ~bindingExists THEN "nothing"
    ELSE IF desiredClass = "" /\ bindingExists THEN "delete"
    ELSE IF desiredClass # "" /\ ~bindingExists THEN "create"
    ELSE "update"

\* The branch NamespaceReconciler.Reconcile takes once it has the label
\* value and the outcome of the binding read.
decide(desiredClass, bindingExists, className) ==
    IF desiredClass = "" /\ ~bindingExists THEN "nothing"
    ELSE IF desiredClass = "" /\ bindingExists THEN "delete"
    ELSE IF desiredClass # "" /\ ~bindingExists THEN "create"
    ELSE IF desiredClass # "" /\ bindingExists /\ className # desiredClass THEN "update"
    ELSE "insync"

\* a variant that names the binding after the class
newBinding_classNamed(namespace, desiredClass, uid) ==
    [uid |-> uid, name |-> desiredClass, owner |-> namespace,
     className |-> desiredClass, status |-> EmptyStatus]

\* a variant that sets no owner reference
newBinding_unowned(namespace, desiredClass, uid) ==
    [uid |-> uid, name |-> namespace, owner |-> "",
     className |-> desiredClass, status |-> EmptyStatus]

\* the binding object the create branch builds (the store adds the uid)
newBinding(namespace, desiredClass, uid) ==
    [uid |-> uid, name |-> namespace, owner |-> namespace,
     className |-> desiredClass, status |-> EmptyStatus]

\* a variant that writes a fresh object over the stored one
updateBinding_reset(b, desiredClass) ==
    [b EXCEPT !.className = desiredClass, !.status = EmptyStatus]

\* the object the update branch sends: the binding it read, with the new class name
updateBinding(b, desiredClass) ==
    [b EXCEPT !.className = desiredClass]

\* the Namespace controller's pass returns
WatchReturn(q, path, result) ==
    [q EXCEPT !.pc = "idle", !.path = path, !.result = result]

\* NamespaceReconciler.Reconcile, first store call: Get of the namespace.
\* A namespace that is gone or marked for deletion ends the pass; else the
\* label value is taken from the object read.
NamespaceGet ==
    /\ nsQueued
    /\ w.pc = "idle"
    /\ \E f \in FailChoices :
         LET q == [NoWatch EXCEPT !.before = binding,
                                  !.ns = IF f THEN "none" ELSE nsState,
                                  !.fail = IF f THEN "getNamespace" ELSE "none"]
             nw == IF f THEN WatchReturn(q, "nserr", "err")
                   ELSE IF nsState = "absent" THEN WatchReturn(q, "nsnotfound", "ok")
                   ELSE IF nsState = "terminating" THEN WatchReturn(q, "deleting", "ok")
                   ELSE [q EXCEPT !.pc = "getBinding", !.label = label]
         IN  /\ w' = nw
             /\ failures' = failures + (IF f THEN 1 ELSE 0)
             /\ nsQueued' = (nw.result = "err")
    /\ p' = Others(FALSE)
    /\ UNCHANGED <<nsState, variant, changes, label, classes, binding, resources, nextUid, queued>>

\* may the Get of the binding fail with an error other than not-found? (the
\* error shows only when a binding is stored)
GetBindingFailChoices ==
    IF failures < MaxFailures /\ binding.uid # 0 THEN {FALSE, TRUE} ELSE {FALSE}

\* second store call: Get of the binding (bindingExists := err == nil), and
\* the choice of the branch; the pass ends here when nothing is to be written.
NamespaceGetBinding ==
    /\ w.pc = "getBinding"
    /\ \E f \in GetBindingFailChoices :
         LET bindingExists == ~f /\ binding.uid # 0
             d == decide(w.label, bindingExists, binding.className)
             q == [w EXCEPT !.before = binding, !.stale = FALSE,
                            !.fail = IF f THEN "getBinding" ELSE "none"]
             nw == IF d \in {"nothing", "insync"} THEN WatchReturn(q, d, "ok")
                   ELSE [q EXCEPT !.pc = "write", !.path = d]
         IN  /\ w' = nw
             /\ failures' = failures + (IF f THEN 1 ELSE 0)
    /\ p' = Others(FALSE)
    /\ UNCHANGED <<nsState, variant, changes, label, classes, binding, resources, nextUid,
                   nsQueued, queued>>

\* what the store answers to the write of the branch taken, given the
\* binding the pass read (w.before) and the one stored now:
\*   Delete carries no precondition and not-found is ignored;
\*   Create is refused when a binding of the name exists (AlreadyExists) and
\*   when the namespace is gone or marked for deletion;
\*   Update carries the resourceVersion that was read and is refused when
\*   the binding was written or replaced since (Conflict) or is gone.
WriteOutcome(f) ==
    LET err(kind) == [w |-> WatchReturn([w EXCEPT !.fail = kind], w.path, "err"),
                      binding |-> binding]
        ok(b, event) == [w |-> WatchReturn([w EXCEPT !.writes = IF w.path = "delete" /\ binding.uid = 0
                                                                THEN 0 ELSE 1,
                                                     !.events = event], w.path, "ok"),
                         binding |-> b]
    IN  IF f THEN err("write")
        ELSE IF w.path = "delete" THEN ok(NoBinding, <<>>)
        ELSE IF w.path = "create" THEN
            IF binding.uid # 0 THEN err(IF w.fail = "none" THEN "exists" ELSE w.fail)
            ELSE IF nsState # "present" THEN err("refused")
            ELSE ok(newBinding(NsName, w.label, nextUid), <<"BindingCreated">>)
        ELSE IF binding.uid # w.before.uid \/ w.stale THEN err("conflict")
        ELSE ok(updateBinding(w.before, w.label), <<"BindingUpdated">>)

\* third store call: the Delete, Create or Update of the binding, then the
\* event.
NamespaceWrite ==
    /\ w.pc = "write"
    /\ \E f \in FailChoices :
         LET o == WriteOutcome(f) IN
         /\ w' = o.w
         /\ binding' = o.binding
         /\ nextUid' = IF o.binding.uid = nextUid THEN nextUid + 1 ELSE nextUid
         /\ failures' = failures + (IF f THEN 1 ELSE 0)
         /\ nsQueued' = (nsQueued \/ o.w.result = "err")
         /\ queued' = (queued \/ o.binding # binding)
         /\ p' = IF o.binding # binding THEN Wrote(TRUE) ELSE Others(FALSE)
    /\ UNCHANGED <<nsState, variant, changes, label, classes, resources>>

\* the steps of the Namespace controller's workers
NamespaceReconcile == NamespaceGet \/ NamespaceGetBinding \/ NamespaceWrite

(* ------------------- NamespaceClassBinding controller ------------------ *)
\* isClassSwitch without the comparison of the names
isClassSwitch_anyName(b, class) ==
    /\ b.status.observedClassName # ""
    /\ Len(b.status.appliedResources) > 0

\* isClassSwitch: the binding was applied from another class than the one fetched.
isClassSwitch(b, class) ==
    /\ b.status.observedClassName # ""
    /\ Len(b.status.appliedResources) > 0
    /\ b.status.observedClassName # class.name

\* needsUpdate that looks at the generation only
needsUpdate_genOnly(b, class) ==
    b.status.observedClassGeneration # class.gen

\* needsUpdate with the generations compared by <= instead of #
needsUpdate_le(b, class) ==
    \/ b.status.observedClassGeneration <= class.gen
    \/ b.status.observedClassName # b.className

\* needsUpdate (modular version)
needsUpdate(b, class) ==
    \/ b.status.observedClassGeneration # class.gen
    \/ b.status.observedClassName # b.className

\* upToDate with the generations compared by > instead of =
upToDate_gt(b, class) ==
    /\ b.status.observedClassGeneration > class.gen
    /\ b.status.observedClassName = class.name

\* "Check if we need to update" of the inline version: TRUE when up to date
upToDate(b, class) ==
    /\ b.status.observedClassGeneration = class.gen
    /\ b.status.observedClassName = class.name

AppliedKeySeq(applied) == [i \in 1..Len(applied) |-> AppliedKey(applied[i])]


\* a store whose apply leaves alone an object the applier already owns
ssaPatch_ownedKept(obj, uid, raw, force) ==
    [err |-> "none",
     obj |-> IF obj # NoRes /\ obj.owner = uid THEN obj
             ELSE [owner |-> uid, data |-> raw.data, held |-> FALSE,
                   immutable |-> raw.immutable, ns |-> raw.namespace]]

\* what the store answers to a server-side apply of manifest raw on the
\* stored object obj (NoRes when absent): a conflict when another field
\* manager holds content the manifest changes and ownership is not forced,
\* an immutable-field error when the object refuses the change, else the
\* object with the manifest's content and namespace and with binding uid
\* as controller owner.
ssaPatch(obj, uid, raw, force) ==
    LET conflict == obj # NoRes /\ obj.held /\ obj.data # raw.data
        frozen == obj # NoRes /\ obj.immutable
                    /\ (obj.data # raw.data \/ raw.immutable # obj.immutable)
        err == IF conflict /\ ~force THEN "conflict"
               ELSE IF frozen THEN "immutable"
               ELSE "none"
    IN  [err |-> err,
         obj |-> IF err # "none" THEN obj
                 ELSE [owner |-> uid, data |-> raw.data,
                       held |-> IF force THEN FALSE ELSE obj.held,
                       immutable |-> raw.immutable, ns |-> raw.namespace]]

\* The errors a Patch may return, by status reason and message text:
\*   "conflict"  409 Conflict, "Apply failed with 1 conflict: conflict with ..."
\*   "immutable" 422 Invalid, "... field is immutable"
\*   "modified"  409 Conflict, "... the object has been modified; please
\*               apply your changes to the latest version" (no field manager
\*               is involved)
\*   "denied"    an admission denial whose message says that the object
\*               "cannot be modified"
\*   "store", "store2"  any other error of the store, by its text (timeout,
\*               unavailable, quota, ...)
\*   "terminating" 403 Forbidden, "unable to create new content in namespace
\*               ns because it is being terminated"
\*   "nsgone"    404 NotFound, "namespaces "ns" not found"
\* isFieldManagerConflict: errors.IsConflict(err), or the message contains
\* "conflict" or "field manager".
isFieldManagerConflict(err) == err \in {"conflict", "modified"}

\* isImmutableFieldError: the message contains "immutable", "cannot be
\* modified" or "field is immutable".
isImmutableFieldError(err) == err \in {"immutable", "denied"}

\* the errors that are neither a field manager conflict nor an
\* immutable-field error
StoreErrors == {"store", "store2", "terminating", "nsgone"}

\* The texts an injected store error may have. The text shows only in the
\* message of the Ready condition, which the inline version alone writes.
StoreTexts == IF variant = "inline" THEN {"store", "store2"} ELSE {"store"}

\* may one more store call fail, and with which error?
StoreFaults == IF failures < MaxFailures THEN {"none"} \cup StoreTexts ELSE {"none"}

\* r.Patch with client.Apply as the store answers it: nothing can be created
\* in a namespace that is marked for deletion, and nothing applied in one
\* that is gone; else the answer of the server-side apply
Patch(obj, uid, raw, force) ==
    IF nsState = "absent" THEN [err |-> "nsgone", obj |-> obj]
    ELSE IF nsState = "terminating" /\ obj = NoRes THEN [err |-> "terminating", obj |-> obj]
    ELSE ssaPatch(obj, uid, raw, force)

\* number of times waitForDeletion reads the object
MaxPolls == 30

\* a wait that reports success when it gives up
waitForDeletion_giveUp(found, cancelled, polls) ==
    IF ~found THEN "gone"
    ELSE IF cancelled THEN "gone"
    ELSE IF polls >= MaxPolls THEN "gone"
    ELSE "again"

\* waitForDeletion, one round: the wait is over when the Get (polls counts
\* it) is answered not-found; any other answer, an error included, is
\* taken for found. Then the select: the context is cancelled, or a second
\* passes, after which round MaxPolls ends in a timeout.
waitForDeletion(found, cancelled, polls) ==
    IF ~found THEN "gone"
    ELSE IF cancelled THEN "cancelled"
    ELSE IF polls >= MaxPolls THEN "timeout"
    ELSE "again"

\* isControllerOwned: the read-back succeeded and the object has a
\* controller owner reference of kind NamespaceClassBinding (uid is the
\* binding being reconciled, which the code does not look at)
isControllerOwned(obj, uid, getErr) ==
    /\ ~getErr
    /\ obj # NoRes
    /\ obj.owner > 0

\* an apply that leaves the manifest's own namespace in place
setNamespace_keep(raw, ns) == raw

\* u.SetNamespace(binding.Namespace) on the object built from the manifest
setNamespace(raw, ns) == [raw EXCEPT !.namespace = ns]

\* an apply loop that logs the error and goes on
applyFailed_ignored(err) == FALSE

\* applyResources: "if err := r.applyResourceSSA(ctx, u); err != nil"
applyFailed(err) == err # "none"

\* the entry carries bytes (a JSON document)
HasBytes(raw) == raw # EmptyRaw

\* the entry makes applyResources return before any store call: (inline
\* version) parseResource returns an error, UnmarshalJSON refuses bytes that
\* are no JSON document and a document without kind; (helper-based
\* version) extractMetaOnly returns an error for bytes that are no JSON
\* document
Unparsable(raw) ==
    IF variant = "modular" THEN Malformed(raw)
    ELSE HasBytes(raw) /\ (Malformed(raw) \/ raw.kind = "")

\* SetControllerReference returns an error: the object parsed from the
\* manifest already names another controller
AlreadyOwned(raw) == raw.controller

\* the entry is passed over by applyResources: (helper-based version) no
\* apiVersion, kind or name; (inline version) parseResource returns nil for
\* an entry without bytes and for a parsed object without apiVersion or name
Skipped(raw) ==
    IF variant = "modular" THEN ~Malformed(raw) /\ ~IsComplete(extractMetaOnly(raw))
    ELSE ~HasBytes(raw) \/ (~Unparsable(raw) /\ ~IsComplete(extractMetaOnly(raw)))

\* the first entry from position i on that applyResources does not pass over
\* (Len + 1 when there is none)
NextEntry(raws, i) ==
    LET S == { j \in i..Len(raws) : ~Skipped(raws[j]) }
    IN  IF S = {} THEN Len(raws) + 1 ELSE CHOOSE j \in S : \A k \in S : j <= k

\* the entries whose apply makes store calls
Appliable(raws) == { i \in 1..Len(raws) : IsComplete(extractMetaOnly(raws[i])) }

\* pruneRemovedResources (modular) refuses a class with an entry that
\* extractMetaOnly fails on or that lacks apiVersion, kind or name
HasInvalidEntry(raws) ==
    \E i \in 1..Len(raws) : Malformed(raws[i]) \/ ~IsComplete(extractMetaOnly(raws[i]))

\* PruneList without the lookup in the class's list
PruneList_all(applied, raws) == AppliedKeySeq(applied)

\* the previously applied entries that the class no longer lists, in status order
PruneList(applied, raws) ==
    SelectSeq(AppliedKeySeq(applied), LAMBDA k : k \notin DesiredKeys(raws))

\* setCondition for the Ready condition of the binding in hand: nothing
\* changes when status, reason and message are those it has
setCondition(status, ok, reason, message) ==
    [status EXCEPT !.cond = [status |-> ok, reason |-> reason, message |-> message]]

\* a failure write that replaces the stored status by the conditions alone
writeConditions_only(cur, own) == [EmptyStatus EXCEPT !.cond = own.cond]

\* the mutate function of the failure writes: the conditions of the
\* binding in hand are copied onto the binding updateStatus has just read
writeConditions(cur, own) == [cur EXCEPT !.cond = own.cond]

\* the pass returns err to the caller, which queues the request again
Fail(q, step, store) ==
    [q EXCEPT !.pc = "idle", !.result = "err", !.step = step,
              !.storeFail = q.storeFail \/ store, !.prev = "none"]
Succeed(q) ==
    [q EXCEPT !.pc = "idle", !.result = "ok",
              !.prev = IF q.touched THEN "mid" ELSE "clean"]

\* the pass record is that of a pass that returned an error
Requeue(q) == q.pc = "idle" /\ q.result = "err"

\* the positions of the apply step
ApplyPcs == {"apply", "force", "owned", "recreate", "wait", "sleep", "create"}

\* the entry the error of the step names: "failed to delete Kind/Name: ..."
\* (prune), "apply Kind/Name: ..." and "set owner reference for Kind/Name:
\* ..." (apply), and the bytes quoted by the error of UnmarshalJSON
Subject(q) ==
    IF q.step = "prune"
    THEN PruneList(q.b.status.appliedResources, q.class.resources)[q.i]
    ELSE extractMetaOnly(q.class.resources[q.i])

\* the messages of the Ready condition, as the values they are built from
NoSubject == <<"", "", "">>
SuccessMessage(q) == <<Len(q.applied), q.class.name, "", NoSubject>>
FailureMessage(q) == <<0, q.step, q.errKind, Subject(q)>>
NotFoundMessage(q) == <<0, q.b.className, "", NoSubject>>

\* the inline version's handling of an error of prune or apply: the Ready
\* condition is set on the binding in hand and written with updateStatus
\* before the error is returned; the helper-based version returns it
Abort(q, step, reason) ==
    IF variant = "modular" THEN Fail(q, step, FALSE)
    ELSE LET r == [q EXCEPT !.step = step] IN
         [r EXCEPT !.pc = "cond", !.write = reason,
                   !.own = setCondition(q.b.status, FALSE, reason, FailureMessage(r))]

\* the apply step is through with the entries before position i: the first
\* store call of the next entry comes next, or the status write when none is
\* left; an entry that cannot be parsed, or whose object cannot take the
\* binding as controller, ends the step with that error
ApplyFrom(q, i) ==
    LET j == NextEntry(q.class.resources, i) IN
    IF j > Len(q.class.resources)
    THEN [q EXCEPT !.pc = "commit", !.i = 0, !.write = "commit",
                   !.own = IF variant = "inline"
                           THEN setCondition(q.b.status, TRUE, reasonReconcileSuccess,
                                             SuccessMessage(q))
                           ELSE q.b.status]
    ELSE IF Unparsable(q.class.resources[j])
    THEN Abort([q EXCEPT !.i = j, !.errKind = "parse"], "apply", reasonApplyFailed)
    ELSE IF AlreadyOwned(q.class.resources[j])
    THEN Abort([q EXCEPT !.i = j, !.errKind = "ownerRef"], "apply", reasonApplyFailed)
    ELSE [q EXCEPT !.pc = "apply", !.i = j]

\* handleNamespaceClassUpdate / the inline Reconcile go from prune to apply;
\* res is what the namespace holds at that moment
EnterApply(q, res) == ApplyFrom([q EXCEPT !.start = res], 1)

\* pruneRemovedResources / pruneResources up to the first Delete: the
\* helper-based version refuses a class with an incomplete entry
EnterPrune(q, res) ==
    IF variant = "modular" /\ HasInvalidEntry(q.class.resources)
    THEN Fail([q EXCEPT !.errKind = "invalid"], "prune", FALSE)
    ELSE IF PruneList(q.b.status.appliedResources, q.class.resources) = <<>>
    THEN EnterApply(q, res)
    ELSE [q EXCEPT !.pc = "prune", !.i = 1]

\* the class is not found: the helper-based version deletes what the status
\* lists and then the binding; the inline version writes Ready=False /
\* ClassNotFound and then deletes the binding
EnterNotFound(q) ==
    IF variant = "modular"
    THEN IF q.b.status.appliedResources = <<>>
         THEN [q EXCEPT !.pc = "deleteBinding"]
         ELSE [q EXCEPT !.pc = "notfound", !.i = 1]
    ELSE [q EXCEPT !.pc = "cond", !.write = reasonClassNotFound,
                   !.own = setCondition(q.b.status, FALSE, reasonClassNotFound,
                                        NotFoundMessage(q))]

\* handleClassSwitch that deletes nothing and leaves the old objects to prune
handleClassSwitch_pruneOnly(q) == EnterPrune([q EXCEPT !.path = "switch"], resources)

\* handleClassSwitch: the objects the status lists are deleted with
\* deleteOldResources, entry by entry
handleClassSwitch(q) == [q EXCEPT !.pc = "switch", !.path = "switch", !.i = 1]

\* a step of the binding controller: the pass record, the stored binding and
\* the namespace's objects after it, and whether an injected fault was met.
\* A pass that returns an error is queued again, and so is the binding when
\* it was written.
Step(nq, nb, nres, fault) ==
    /\ p' = nq
    /\ binding' = nb
    /\ resources' = nres
    /\ failures' = failures + (IF fault THEN 1 ELSE 0)
    /\ queued' = (queued \/ Requeue(nq) \/ nb # binding)
    /\ w' = Seen(nb # binding)
    /\ UNCHANGED <<nsState, variant, changes, label, classes, nextUid, nsQueued>>

\* a Reconcile that takes every error of the class read for not-found
readPath_anyError(f, b) ==
    IF f = "binding" THEN "readerr"
    ELSE IF b.uid = 0 THEN "nobinding"
    ELSE IF f = "class" \/ classes[b.className] = NoClass THEN "notfound"
    ELSE "found"

\* the two reads of Reconcile: the binding (b, uid 0 when there is none)
\* and then the class it names; f is the read that fails with an error
\* other than not-found. A missing binding ends the pass before the class
\* is read.
readPath(f, b) ==
    IF f = "binding" THEN "readerr"
    ELSE IF b.uid = 0 THEN "nobinding"
    ELSE IF f = "class" THEN "readerr"
    ELSE IF classes[b.className] = NoClass THEN "notfound"
    ELSE "found"

\* Reconcile, first store call: Get of the binding.
BeginPass ==
    /\ queued
    /\ p.pc = "idle"
    /\ \E f \in FailChoices :
         LET path == readPath(IF f THEN "binding" ELSE "none", binding)
             q == [Blank EXCEPT !.follows = p.prev]
             nq == IF path = "readerr" THEN Fail([q EXCEPT !.path = "readerr"], "get", TRUE)
                   ELSE IF path = "nobinding" THEN Succeed([q EXCEPT !.path = "nobinding"])
                   ELSE [q EXCEPT !.pc = "getClass", !.b = binding,
                                  !.class = [NoSnapshot EXCEPT !.name = binding.className],
                                  !.pre = ManagedKeys(resources, binding.uid)
                                            = AppliedKeys(binding.status.appliedResources)]
         IN  /\ p' = nq
             /\ failures' = failures + (IF f THEN 1 ELSE 0)
             /\ queued' = Requeue(nq)
    /\ w' = Seen(FALSE)
    /\ UNCHANGED <<nsState, variant, changes, label, classes, binding, resources, nextUid, nsQueued>>

\* Reconcile, second store call: Get of the class the binding names, then
\* the decision: class not found, class switch, update needed, up to date.
FetchClass ==
    /\ p.pc = "getClass"
    /\ \E f \in FailChoices :
         LET path == readPath(IF f THEN "class" ELSE "none", p.b)
             class == [name |-> p.b.className, gen |-> classes[p.b.className].gen,
                       resources |-> classes[p.b.className].resources]
             q == [p EXCEPT !.class = class]
             nq == IF path = "readerr" THEN Fail([p EXCEPT !.path = "readerr"], "getClass", TRUE)
                   ELSE IF path = "notfound" THEN EnterNotFound([p EXCEPT !.path = "notfound"])
                   ELSE IF variant = "modular" /\ isClassSwitch(p.b, class)
                   THEN handleClassSwitch(q)
                   ELSE IF (variant = "modular" /\ needsUpdate(p.b, class))
                          \/ (variant = "inline" /\ ~upToDate(p.b, class))
                   THEN EnterPrune([q EXCEPT !.path = "update"], resources)
                   ELSE Succeed([q EXCEPT !.path = "skip"])
         IN  Step(nq, binding, resources, f)

\* deleteOldResources with a loop that drops the error of a Delete and goes
\* on with the next entry
deleteOldResources_bestEffort(len, i, err) ==
    IF i < len THEN i + 1 ELSE 0

\* deleteOldResources, the loop over the len entries of the status after the
\* Delete of entry i (err: it failed with an error other than not-found):
\* the number of the entry to delete next, 0 when the loop is through and
\* -1 when the error is returned
deleteOldResources(len, i, err) ==
    IF err THEN -1 ELSE IF i < len THEN i + 1 ELSE 0

\* what a Delete of key k by the pass q leaves in the pass record
Deleted(q, k) ==
    [q EXCEPT !.deleted = @ \cup {k},
              !.stray = @ \cup (IF Exists(resources, k) /\ resources[k].owner # q.b.uid
                                THEN {k} ELSE {})]

\* deleteOldResources (helper-based version), one Delete: of handleClassSwitch,
\* which goes on to prune and apply, and of handleNamespaceClassDeleted,
\* which goes on to delete the binding
DeleteOldResources ==
    /\ variant = "modular"
    /\ p.pc \in {"notfound", "switch"}
    /\ \E f \in FailChoices :
         LET ks == AppliedKeySeq(p.b.status.appliedResources)
             k == ks[p.i]
             next == deleteOldResources(Len(ks), p.i, f)
             res == IF f THEN resources ELSE [resources EXCEPT ![k] = NoRes]
             q == IF f THEN p ELSE Deleted(p, k)
             nq == IF next = -1
                   THEN Fail(q, IF p.pc = "switch" THEN "switch" ELSE "cleanup", TRUE)
                   ELSE IF next = 0
                   THEN IF p.pc = "switch" THEN EnterPrune(q, res)
                        ELSE [q EXCEPT !.pc = "deleteBinding"]
                   ELSE [q EXCEPT !.i = next]
         IN  Step(nq, binding, res, f)

\* the Delete of the binding when its class is not found, then (helper-based
\* version) the CleanedUp event. The call names the binding and carries no
\* precondition.
DeleteBinding ==
    /\ p.pc = "deleteBinding"
    /\ \E f \in FailChoices :
         LET nq == IF f
                   THEN Fail(p, IF variant = "modular" THEN "cleanup" ELSE "delete", TRUE)
                   ELSE Succeed([p EXCEPT !.bindingDeleted = (binding.uid # 0),
                                          !.events = IF variant = "modular"
                                                     THEN @ \cup {"CleanedUp"} ELSE @])
         IN  Step(nq, IF f THEN binding ELSE NoBinding, resources, f)

\* one Delete of the prune loop: entry p.i of the applied objects the class
\* no longer lists
PruneDelete ==
    /\ p.pc = "prune"
    /\ \E t \in StoreFaults :
         LET f == t # "none"
             ks == PruneList(p.b.status.appliedResources, p.class.resources)
             k == ks[p.i]
             res == IF f THEN resources ELSE [resources EXCEPT ![k] = NoRes]
             q == IF f THEN [p EXCEPT !.storeFail = TRUE, !.errKind = t]
                  ELSE [Deleted(p, k) EXCEPT !.pruned = @ \cup {k}]
             nq == IF f THEN Abort(q, "prune", reasonPruneFailed)
                   ELSE IF p.i < Len(ks) THEN [q EXCEPT !.i = p.i + 1]
                   ELSE EnterApply(q, res)
         IN  Step(nq, binding, res, f)

\* pruneRemovedResources (helper-based version)
PruneRemovedResources == variant = "modular" /\ PruneDelete

\* pruneResources (inline version)
PruneResources == variant = "inline" /\ PruneDelete

\* the entry the apply step is at, its key, and the object built from it
Entry(q) == q.class.resources[q.i]
EntryKey(q) == RawKey(Entry(q))
EntryObject(q) == setNamespace(Entry(q), NsName)

\* the apply of entry q.i has returned nil: it is appended to the applied
\* list and the loop goes on
Applied(q, created) ==
    LET m == extractMetaOnly(Entry(q)) IN
    ApplyFrom([q EXCEPT !.applied = Append(@, AppliedResource(m[1], m[2], m[3])),
                        !.patched = @ \cup {EntryKey(q)},
                        !.created = @ \cup (IF created THEN {EntryKey(q)} ELSE {})],
              q.i + 1)

\* the apply of entry q.i has returned err
Returns(q, err, created) ==
    IF applyFailed(err)
    THEN Abort([q EXCEPT !.errKind = err], "apply", reasonApplyFailed)
    ELSE Applied(q, created)

\* the store call c for the entry the apply step is at
Call(q, c) == [q EXCEPT !.calls = Append(@, <<c, EntryKey(q)>>)]

\* the errors an injected fault gives the unforced Patch: "store", or one
\* of the messages the ladder's tests match
PatchFaults ==
    IF failures < MaxFailures THEN {"none", "store", "modified", "denied"} ELSE {"none"}

\* applyResourceSSA (helper-based version), first store call: Patch without
\* forcing. A field manager conflict leads to the forced Patch, an
\* immutable-field error to recreateResource, any other error is returned.
ApplyResourceSSA ==
    /\ variant = "modular"
    /\ p.pc = "apply"
    /\ \E f \in PatchFaults :
         LET k == EntryKey(p)
             a == IF f # "none" THEN [err |-> f, obj |-> resources[k]]
                  ELSE Patch(resources[k], p.b.uid, EntryObject(p), FALSE)
             q == [Call(p, "patch") EXCEPT !.storeFail = @ \/ f # "none" \/ a.err \in StoreErrors]
             nq == IF a.err = "none" THEN Applied(q, ~Exists(resources, k))
                   ELSE IF isFieldManagerConflict(a.err) THEN [q EXCEPT !.pc = "force"]
                   ELSE IF isImmutableFieldError(a.err) THEN [q EXCEPT !.pc = "owned"]
                   ELSE Returns(q, a.err, FALSE)
         IN  Step(nq, binding, [resources EXCEPT ![k] = a.obj], f # "none")

\* applyResourceSSA, second try: the same Patch with ForceOwnership; its
\* error is returned
ForcePatch ==
    /\ p.pc = "force"
    /\ \E f \in FailChoices :
         LET k == EntryKey(p)
             a == IF f THEN [err |-> "store", obj |-> resources[k]]
                  ELSE Patch(resources[k], p.b.uid, EntryObject(p), TRUE)
             q == [Call(p, "forcePatch") EXCEPT !.storeFail = @ \/ a.err \in StoreErrors]
         IN  Step(Returns(q, a.err, ~Exists(resources, k)), binding,
                  [resources EXCEPT ![k] = a.obj], f)

\* recreateResource, first store call: the Get of isControllerOwned
IsControllerOwned ==
    /\ p.pc = "owned"
    /\ \E f \in FailChoices :
         LET q == [Call(p, "get") EXCEPT !.storeFail = @ \/ f]
             nq == IF isControllerOwned(resources[EntryKey(p)], p.b.uid, f)
                   THEN [q EXCEPT !.pc = "recreate"]
                   ELSE Returns(q, "notowned", FALSE)
         IN  Step(nq, binding, resources, f)

\* what an injected fault does to the Delete of recreateResource: the call
\* fails, or it succeeds and the object stays (a finalizer holds it)
DeleteFaults ==
    IF failures < MaxFailures THEN {"none", "store", "linger"} ELSE {"none"}

\* recreateResource, second store call: Delete of the object (not-found is
\* ignored); then the wait starts
RecreateDelete ==
    /\ p.pc = "recreate"
    /\ \E f \in DeleteFaults :
         LET k == EntryKey(p)
             q == [Call(p, "delete") EXCEPT !.storeFail = @ \/ f # "none", !.polls = 0]
             nq == IF f = "store" THEN Returns(q, "store", FALSE)
                   ELSE [q EXCEPT !.pc = "wait"]
         IN  Step(nq, binding,
                  IF f = "none" THEN [resources EXCEPT ![k] = NoRes] ELSE resources,
                  f # "none")

\* the answers of a Get of the wait that are taken for "still there": the
\* object, an error of the store, the error of a cancelled context
Lingering == {"pollPresent", "pollError", "pollCancelled"}

\* the log of the wait keeps its last Get only: "pollAbsent" when it was
\* answered not-found, else one of Lingering
Polled(q, c) ==
    IF q.calls # <<>> /\ q.calls[Len(q.calls)][1] \in Lingering
                      /\ q.calls[Len(q.calls)][2] = EntryKey(q)
    THEN [q EXCEPT !.calls[Len(q.calls)] = <<c, EntryKey(q)>>, !.polls = @ + 1]
    ELSE [Call(q, c) EXCEPT !.polls = @ + 1]

\* what the Get of a round may meet besides the store's answer: an error of
\* the store, or a context that is cancelled already (which is no fault of
\* the store)
PollFaults ==
    IF failures < MaxFailures THEN {"none", "store", "cancelled"} ELSE {"none", "cancelled"}

\* waitForDeletion, the Get of a round: not-found ends the wait, and the
\* object is created again; after any other answer the round goes on to
\* its select
WaitForDeletionGet ==
    /\ p.pc = "wait"
    /\ \E f \in PollFaults :
         LET found == f # "none" \/ Exists(resources, EntryKey(p))
             q == Polled(p, IF f = "store" THEN "pollError"
                            ELSE IF f = "cancelled" THEN "pollCancelled"
                            ELSE IF found THEN "pollPresent" ELSE "pollAbsent")
             r == waitForDeletion(found, FALSE, 0)
             nq == IF r = "gone" THEN [q EXCEPT !.pc = "create"]
                   ELSE [q EXCEPT !.pc = "sleep", !.storeFail = @ \/ f = "store"]
         IN  Step(nq, binding, resources, f = "store")

\* waitForDeletion, the select of a round: the context's error is returned
\* when it is cancelled (it stays so when the Get met it cancelled), else a
\* second passes and the next round starts, or the wait times out
WaitForDeletionSleep ==
    /\ p.pc = "sleep"
    /\ \E cancelled \in BOOLEAN :
         LET r == waitForDeletion(TRUE, cancelled, p.polls)
             nq == IF r = "gone" THEN [p EXCEPT !.pc = "create"]
                   ELSE IF r = "again" THEN [p EXCEPT !.pc = "wait"]
                   ELSE Returns([p EXCEPT !.storeFail = TRUE], r, FALSE)
         IN  /\ p.calls[Len(p.calls)][1] = "pollCancelled" => cancelled
             /\ Step(nq, binding, resources, FALSE)

\* waitForDeletion, round by round
WaitForDeletion == WaitForDeletionGet \/ WaitForDeletionSleep

\* recreateResource, last store call: the Patch that creates the object
\* again, without forcing; its error is returned
RecreatePatch ==
    /\ p.pc = "create"
    /\ \E f \in FailChoices :
         LET k == EntryKey(p)
             a == IF f THEN [err |-> "store", obj |-> resources[k]]
                  ELSE Patch(resources[k], p.b.uid, EntryObject(p), FALSE)
             q == [Call(p, "create") EXCEPT !.storeFail = @ \/ a.err \in StoreErrors]
         IN  Step(Returns(q, a.err, FALSE), binding, [resources EXCEPT ![k] = a.obj], f)

\* applyResources of the inline version: one Patch per entry, always with
\* ForceOwnership
ApplyInline ==
    /\ variant = "inline"
    /\ p.pc = "apply"
    /\ \E t \in StoreFaults :
         LET f == t # "none"
             k == EntryKey(p)
             a == IF f THEN [err |-> t, obj |-> resources[k]]
                  ELSE Patch(resources[k], p.b.uid, EntryObject(p), TRUE)
             q == [Call(p, "forcePatch") EXCEPT !.storeFail = @ \/ a.err \in StoreErrors]
         IN  Step(Returns(q, a.err, ~Exists(resources, k)), binding,
                  [resources EXCEPT ![k] = a.obj], f)

\* the apply step of the helper-based version
ApplyModular ==
    \/ ApplyResourceSSA
    \/ ForcePatch
    \/ IsControllerOwned
    \/ RecreateDelete
    \/ WaitForDeletion
    \/ RecreatePatch

\* a status write that sends the whole object, desired class name included
patchStatus_whole(b, st) == [b EXCEPT !.status = st, !.className = st.observedClassName]

\* r.Status().Patch: the stored binding with the new status; the status
\* subresource leaves metadata and spec as stored
patchStatus(b, st) == [b EXCEPT !.status = st]

\* the status patch of updateStatus / patchBindingStatus changed the stored object
Changed(st) == IF binding.status # st THEN 1 ELSE 0

\* the status the pass commits: the name and generation of the class it
\* fetched and the list applyResources returned
Committed(st, q) ==
    [st EXCEPT !.observedClassName = q.class.name,
               !.observedClassGeneration = q.class.gen,
               !.appliedResources = q.applied]

\* the JSON merge patch client.MergeFrom(base) builds from the mutated
\* object, applied to the stored status cur: the fields whose value differs
\* between base and mutated are set, lists as a whole; the patch carries no
\* resourceVersion
mergePatch(cur, base, mutated) ==
    [f \in DOMAIN cur |-> IF mutated[f] # base[f] THEN mutated[f] ELSE cur[f]]

\* the mutate function of the commit, applied to the object just read (the
\* inline version copies the conditions of the binding in hand as well)
mutateCommit(base, q) ==
    IF variant = "modular" THEN Committed(base, q)
    ELSE [Committed(base, q) EXCEPT !.cond = q.own.cond]

\* the mutate function of the status write under way
Mutated(q) ==
    IF q.write = "commit" THEN mutateCommit(q.base, q) ELSE writeConditions(q.base, q.own)

\* a failure write of the inline version is over, whatever its outcome (its
\* error is dropped): the binding is deleted when the class was not found,
\* else the error of prune or apply is returned
AfterCond(q) ==
    IF q.write = reasonClassNotFound THEN [q EXCEPT !.pc = "deleteBinding"]
    ELSE Fail(q, q.step, FALSE)

\* the function of the status write returned err, which RetryOnConflict
\* passes on
StatusFailed(q) ==
    IF q.write = "commit" THEN Fail(q, "status", TRUE)
    ELSE AfterCond([q EXCEPT !.storeFail = TRUE])

\* patchBindingStatus / updateStatus, first store call: Get of the binding
StatusGet ==
    /\ p.pc \in {"commit", "cond"}
    /\ \E f \in FailChoices :
         LET nq == IF f \/ binding.uid = 0 THEN StatusFailed(p)
                   ELSE [p EXCEPT !.pc = "patch", !.base = binding.status]
         IN  Step(nq, binding, resources, f)

\* the errors an injected fault gives the Patch of the status: "conflict"
\* is a 409, on which RetryOnConflict runs the function again
StatusFaults ==
    IF failures < MaxFailures THEN {"none", "store", "conflict"} ELSE {"none"}

\* patchBindingStatus / updateStatus, second store call: Status().Patch with
\* client.MergeFrom(base), which names the binding and carries neither uid
\* nor resourceVersion; after the commit the ReconcileSucceeded event
StatusPatch ==
    /\ p.pc = "patch"
    /\ \E f \in StatusFaults :
         LET st == mergePatch(binding.status, p.base, Mutated(p))
             done == [p EXCEPT !.statusWrites = @ + Changed(st)]
             nq == IF f = "conflict"
                   THEN [p EXCEPT !.pc = IF p.write = "commit" THEN "commit" ELSE "cond",
                                  !.storeFail = TRUE]
                   ELSE IF f = "store" \/ binding.uid = 0 THEN StatusFailed(p)
                   ELSE IF p.write = "commit"
                   THEN Succeed([done EXCEPT !.events = @ \cup {"ReconcileSucceeded"}])
                   ELSE AfterCond(done)
         IN  Step(nq,
                  IF f = "none" /\ binding.uid # 0 THEN patchStatus(binding, st) ELSE binding,
                  resources, f # "none")

\* the steps of the NamespaceClassBinding controller's workers
BindingReconcile ==
    \/ BeginPass
    \/ FetchClass
    \/ DeleteOldResources
    \/ DeleteBinding
    \/ PruneRemovedResources
    \/ PruneResources
    \/ ApplyModular
    \/ ApplyInline
    \/ StatusGet
    \/ StatusPatch

(* --------------------------- specification ----------------------------- *)
Init ==
    /\ variant \in Variants
    /\ label = ""
    /\ classes = [n \in ClassNames |-> NoClass]
    /\ binding = NoBinding
    /\ resources = [k \in Keys |-> NoRes]
    /\ nextUid = 1
    /\ failures = 0
    /\ changes = 0
    /\ nsQueued = FALSE
    /\ queued = FALSE
    /\ p = Blank
    /\ w = NoWatch
    /\ nsState = "present"

Next ==
    \/ \E l \in ClassNames \cup {""} : SetLabel(l)
    \/ DeleteNamespace
    \/ FinalizeNamespace
    \/ \E n \in ClassNames, rl \in ResourceLists : CreateClass(n, rl)
    \/ \E n \in ClassNames, rl \in ResourceLists : UpdateClass(n, rl)
    \/ \E n \in ClassNames : DeleteClass(n)
    \/ \E k \in Keys : UserCreate(k)
    \/ \E k \in Keys : Cascade(k)
    \/ NamespaceReconcile
    \/ BindingReconcile

Spec == Init /\ [][Next]_vars

\* the store's garbage collector
GarbageCollect == \E k \in Keys : Cascade(k)

\* The steps of a namespace that stays: its label and the classes change,
\* both controllers work, and the garbage collector runs.
LiveNext ==
    \/ \E l \in ClassNames \cup {""} : SetLabel(l)
    \/ \E n \in ClassNames, rl \in ResourceLists : CreateClass(n, rl)
    \/ \E n \in ClassNames, rl \in ResourceLists : UpdateClass(n, rl)
    \/ \E n \in ClassNames : DeleteClass(n)
    \/ GarbageCollect
    \/ NamespaceReconcile
    \/ BindingReconcile

\* Both controllers' work queues are served by running workers, and the
\* store's garbage collector runs: a queued request is eventually handled, a
\* started pass eventually returns, an orphan is eventually collected.
FairSpec ==
    /\ Init
    /\ [][LiveNext]_vars
    /\ WF_vars(NamespaceReconcile)
    /\ WF_vars(BindingReconcile)
    /\ WF_vars(GarbageCollect)

(* ------------------- the apply step on stored objects ------------------ *)
\* a document with apiVersion and name and without kind
cmNoKind == [cmA1 EXCEPT !.kind = ""]

\* Manifest lists for the apply step alone; cmB2 describes an immutable
\* object, two lists have two entries of one key, one list has an entry
\* without kind and one an entry that names a controller of its own.
LadderLists ==
    ResourceLists \cup { <<cmB2>>, <<cmA1, cmB2>>, <<cmA1, cmA2>>, <<cmB2, cmB1>>,
                         <<cmB1, cmNoKind>>, <<cmB1, cmOwned>> }

\* What the namespace may hold under a key when an apply step starts:
\* nothing, or an object made by a user (owner 0), by this binding or by
\* another NamespaceClassBinding, with content equal to or different from
\* the manifest's, held or not by another field manager, immutable or not.
StoredObjects ==
    {NoRes} \cup [owner : 0..MaxUid, data : 1..3, held : BOOLEAN,
                  immutable : BOOLEAN, ns : {NsName}]

\* A pass of binding MaxUid on class "A" that has reached its apply step
\* (the helper-based version's prune step refuses a list with an
\* incomplete entry).
LadderInit ==
    /\ variant \in Variants
    /\ nsState = "present"
    /\ label = "A"
    /\ \E raws \in LadderLists :
         /\ variant = "modular" => ~HasInvalidEntry(raws)
         /\ classes = [n \in ClassNames |->
                         IF n = "A" THEN [gen |-> 1, resources |-> raws] ELSE NoClass]
    /\ binding = newBinding(NsName, "A", MaxUid)
    /\ resources \in [Keys -> StoredObjects]
    /\ nextUid = MaxUid + 1
    /\ failures = 0
    /\ changes = MaxChanges
    /\ nsQueued = FALSE
    /\ queued = FALSE
    /\ p = EnterApply([Blank EXCEPT !.path = "update", !.b = binding,
                                    !.class = [name |-> "A", gen |-> 1,
                                               resources |-> classes["A"].resources]],
                      resources)
    /\ w = NoWatch

\* the apply step, and the status write that follows it
LadderNext == ApplyModular \/ ApplyInline \/ StatusGet \/ StatusPatch

LadderSpec == LadderInit /\ [][LadderNext]_vars

(* ------------------ one binding from any stored state ------------------ *)
\* the status a successful pass stores in one write: the helper-based
\* version sets the observed name and generation and the applied list and
\* no condition; the inline version sets Ready=True / ReconcileSuccess, with
\* the message naming the count and the class, in the same write
CommittedStatus(name, gen, applied) ==
    [observedClassName |-> name, observedClassGeneration |-> gen,
     appliedResources |-> applied,
     cond |-> IF variant = "inline"
              THEN [status |-> TRUE, reason |-> reasonReconcileSuccess,
                    message |-> <<Len(applied), name, "", NoSubject>>]
              ELSE NoCond]

\* the statuses a stored binding may carry when a request for it arrives:
\* none yet, or what a pass of this version committed
PassStatuses ==
    {EmptyStatus} \cup
    { CommittedStatus(n, g, a) :
        n \in ClassNames, g \in 1..MaxGen,
        a \in {<<>>, <<AppliedResource("v1", "ConfigMap", "a")>>,
               <<AppliedResource("v1", "ConfigMap", "b"),
                 AppliedResource("v1", "ConfigMap", "a")>>} }

\* the objects the namespace may hold under a key: none, one the binding
\* applied, or a user's
PassObjects ==
    {NoRes,
     [owner |-> 1, data |-> 1, held |-> FALSE, immutable |-> FALSE, ns |-> NsName],
     [owner |-> 0, data |-> 3, held |-> TRUE, immutable |-> FALSE, ns |-> NsName]}

\* the lists class A may have when the request arrives
PassLists == ResourceLists \cup { <<cmB1, cmNoKind>>, <<cmB1, cmBroken>>, <<cmB1, cmOwned>> }

\* A request for binding 1 is queued; the binding names either class, has
\* any status, and the classes and the namespace's objects are in any state.
PassInit ==
    /\ variant \in Variants
    /\ nsState = "present"
    /\ label \in ClassNames
    /\ \E ca \in {NoClass} \cup [gen : 1..MaxGen, resources : PassLists],
          cb \in {NoClass, [gen |-> 1, resources |-> <<cmB1, cmA2>>]} :
         classes = [n \in ClassNames |-> IF n = "A" THEN ca ELSE cb]
    /\ \E st \in PassStatuses :
         binding = [newBinding(NsName, label, 1) EXCEPT !.status = st]
    /\ resources \in [Keys -> PassObjects]
    /\ nextUid = 2
    /\ failures = 0
    /\ changes = MaxChanges
    /\ nsQueued = FALSE
    /\ queued = TRUE
    /\ p = Blank
    /\ w = NoWatch

\* the binding controller alone, started from PassInit
PassSpec == PassInit /\ [][BindingReconcile]_vars

(* ------------- a label change beside a pass of the binding ------------- *)
\* the identities of the complete entries of a list, in list order
ExpectedApplied(raws) ==
    LET c == SelectSeq(raws, LAMBDA r : IsComplete(extractMetaOnly(r)))
    IN  [i \in 1..Len(c) |-> AppliedResource(c[i].apiVersion, c[i].kind, c[i].name)]

\* the content the class gives the object k: that of its last entry for k
TemplateData(raws, k) ==
    LET I == { i \in Appliable(raws) : RawKey(raws[i]) = k }
    IN  raws[CHOOSE i \in I : \A j \in I : j <= i].data

\* what the binding may have committed before the label change, as the
\* status and the list it was applied from: nothing yet (the binding as the
\* Namespace controller created it), or the status a successful pass of
\* this version stored for class A as it is (or, when A is gone, as it
\* was), or for class B before the binding was pointed at A
RaceBases(ca) ==
    { [st |-> EmptyStatus, rl |-> <<>>] }
    \cup { [st |-> CommittedStatus("A", 1, ExpectedApplied(rl)), rl |-> rl] :
              rl \in IF ca = NoClass THEN ResourceLists ELSE {ca.resources} }
    \cup { [st |-> CommittedStatus("B", 1, ExpectedApplied(<<cmB1, cmA2>>)),
            rl |-> <<cmB1, cmA2>>] }

\* the object binding 1 applied under key k from list rl
AppliedObject(rl, k) ==
    [owner |-> 1, data |-> TemplateData(rl, k), held |-> FALSE,
     immutable |-> FALSE, ns |-> NsName]

\* The namespace's label has just been changed from A to B, or removed:
\* the Namespace controller's request is queued, and a request for the
\* binding (uid 1, still naming A) is queued or about to be handled. Class
\* B exists and is not edited; class A is missing or has any list; the
\* namespace holds the objects the binding's status lists, and under the
\* other keys nothing, a user's object, or an object the binding applied in
\* a pass that did not commit.  The label stays as it has just been set.
RaceInit ==
    /\ variant \in Variants
    /\ nsState = "present"
    /\ label \in {"B", ""}
    /\ \E ca \in {NoClass} \cup [gen : {1}, resources : ResourceLists] :
         classes = [n \in ClassNames |->
                      IF n = "A" THEN ca ELSE [gen |-> 1, resources |-> <<cmB1, cmA2>>]]
    /\ \E base \in RaceBases(classes["A"]) :
         /\ binding = [newBinding(NsName, "A", 1) EXCEPT !.status = base.st]
         /\ \E other \in [Keys -> PassObjects] :
              resources = [k \in Keys |-> IF k \in DesiredKeys(base.rl)
                                          THEN AppliedObject(base.rl, k)
                                          ELSE other[k]]
    /\ nextUid = 2
    /\ failures = 0
    /\ changes = MaxChanges
    /\ nsQueued = TRUE
    /\ queued = TRUE
    /\ p = Blank
    /\ w = NoWatch

\* both controllers and the garbage collector, in any interleaving
RaceNext ==
    \/ NamespaceReconcile
    \/ BindingReconcile
    \/ GarbageCollect

RaceSpec == RaceInit /\ [][RaceNext]_vars

\* the same with workers and a garbage collector that do not stop while
\* they have something to do
RaceFairSpec ==
    /\ RaceInit
    /\ [][RaceNext]_vars
    /\ WF_vars(NamespaceReconcile)
    /\ WF_vars(BindingReconcile)
    /\ WF_vars(GarbageCollect)

(* ------------------ the status write and other writers ----------------- *)
\* the statuses another writer may store
StatusValues ==
    [observedClassName : ClassNames,
     observedClassGeneration : 1..MaxGen,
     appliedResources : {<<>>, <<AppliedResource("v1", "ConfigMap", "a")>>,
                         <<AppliedResource("v1", "ConfigMap", "b")>>},
     cond : {NoCond} \cup { [status |-> TRUE, reason |-> reasonReconcileSuccess,
                             message |-> <<n, "A", "", <<"", "", "">>>>] : n \in 0..2 }]

\* A pass of binding 1 on class "A" that has applied the class's entries
\* and is about to write the status.  The class is as the pass read it, or
\* has been deleted since.
StatusInit ==
    /\ variant \in Variants
    /\ nsState = "present"
    /\ label = "A"
    /\ \E st \in {EmptyStatus} \cup StatusValues :
         binding = [newBinding(NsName, "A", 1) EXCEPT !.status = st]
    /\ \E raws \in ResourceLists, g \in 1..MaxGen, gone \in BOOLEAN :
         LET class == [name |-> "A", gen |-> g, resources |-> raws] IN
         /\ classes = [n \in ClassNames |->
                         IF n = "A" /\ ~gone THEN [gen |-> g, resources |-> raws]
                         ELSE NoClass]
         /\ IF variant = "modular" THEN needsUpdate(binding, class)
                                    ELSE ~upToDate(binding, class)
         /\ variant = "modular" => ~HasInvalidEntry(raws)
         /\ resources = [k \in Keys |-> IF k \in DesiredKeys(raws)
                                        THEN AppliedObject(raws, k) ELSE NoRes]
         /\ p = ApplyFrom([Blank EXCEPT !.path = "update", !.b = binding,
                                        !.class = class,
                                        !.applied = ExpectedApplied(raws),
                                        !.patched = DesiredKeys(raws),
                                        !.created = DesiredKeys(raws)],
                          Len(raws) + 1)
    /\ nextUid = 2
    /\ failures = 0
    /\ changes = MaxChanges - 1
    /\ nsQueued = FALSE
    /\ queued = FALSE
    /\ w = NoWatch

\* another writer stores a status of its own while a pass is under way; the
\* update of the binding reaches the binding controller's queue
OtherStatusWrite ==
    /\ InFlight
    /\ changes < MaxChanges
    /\ \E st \in StatusValues :
         /\ st # binding.status
         /\ binding' = [binding EXCEPT !.status = st]
    /\ changes' = changes + 1
    /\ queued' = TRUE
    /\ w' = Seen(TRUE)
    /\ p' = Wrote(FALSE)
    /\ UNCHANGED <<nsState, variant, label, classes, resources, nextUid, failures, nsQueued>>

StatusNext == BindingReconcile \/ OtherStatusWrite

StatusSpec == StatusInit /\ [][StatusNext]_vars

TypeOK ==
    /\ variant \in Variants
    /\ label \in ClassNames \cup {""}
    /\ \A n \in ClassNames : classes[n].gen \in 0..MaxGen
    /\ nextUid \in 1..MaxUid + MaxChanges + 1
    /\ binding.uid \in 0..nextUid - 1
    /\ \A k \in Keys : resources[k].owner \in -1..nextUid - 1
    /\ failures \in 0..MaxFailures
    /\ changes \in 0..MaxChanges
    /\ nsState \in {"present", "terminating", "absent"}
    /\ binding.uid # 0 => binding.name = NsName
    /\ w.result \in {"none", "ok", "err"}
    /\ w.pc \in {"idle", "getBinding", "write"}
    /\ p.pc \in {"idle", "getClass", "notfound", "switch", "prune", "deleteBinding",
                 "apply", "force", "owned", "recreate", "wait", "sleep", "create",
                 "commit", "cond", "patch"}
    /\ p.pc \in {"notfound", "switch"} => p.i \in 1..Len(p.b.status.appliedResources)
    /\ p.pc \in ApplyPcs => p.i \in Appliable(p.class.resources)


(* ------------------------------ properties ----------------------------- *)
\* what a state right after a pass returned says about that pass
Template == classes[p.class.name]
Status == binding.status
Quiet == ~p.touched
\* nobody else wrote the binding, the namespace or its objects during the pass
Undisturbed == ~p.mixed
CaughtUpAtStart ==
    /\ p.pre
    /\ p.b.status.observedClassName = p.b.className
NoWrites ==
    /\ p.deleted = {}
    /\ p.patched = {}
    /\ p.statusWrites = 0
    /\ ~p.bindingDeleted

\* C1 (convergence): a pass over a caught-up binding whose class was edited,
\* in which no store call fails and during which nobody else changes the
\* class, the binding or the namespace's objects, returns success and leaves
\* the keys of the objects the binding owns, the keys of the class's entries
\* and the keys of status.appliedResources equal.
Convergence ==
    (Returned /\ p.path = "update" /\ CaughtUpAtStart /\ ~p.storeFail /\ Quiet /\ Undisturbed)
        => /\ p.result = "ok"
           /\ ManagedKeys(resources, binding.uid) = DesiredKeys(Template.resources)
           /\ AppliedKeys(Status.appliedResources) = DesiredKeys(Template.resources)

\* C2 (no orphans): right after a pass that returned success and that nobody
\* else's write ran beside, every object owned by the binding has its key in
\* status.appliedResources.
NoOrphans ==
    (Returned /\ p.result = "ok" /\ binding.uid # 0 /\ Undisturbed)
        => ManagedKeys(resources, binding.uid) \subseteq AppliedKeys(Status.appliedResources)

\* C3 (no phantoms): right after a pass that returned success and that
\* nobody else's write ran beside, every entry of status.appliedResources
\* names an object that exists.
NoPhantoms ==
    (Returned /\ p.result = "ok" /\ binding.uid # 0 /\ Undisturbed)
        => \A k \in AppliedKeys(Status.appliedResources) : Exists(resources, k)

\* C4 (non-interference): a pass never deletes an object that does not carry
\* an owner reference to the pass's binding.
NonInterference == p.stray = {}

\* C5 (deletion cascade): when the pass finds that the class does not exist
\* and none of its store calls fails, then at its return every object the
\* binding's status listed has been deleted (and is absent, unless somebody
\* created it again beside the pass), the binding has been deleted and a
\* CleanedUp event is recorded.
DeletionCascade ==
    (Returned /\ p.path = "notfound" /\ ~p.storeFail)
        => /\ p.result = "ok"
           /\ AppliedKeys(p.b.status.appliedResources) \subseteq p.deleted
           /\ Undisturbed =>
                \A k \in AppliedKeys(p.b.status.appliedResources) : ~Exists(resources, k)
           /\ binding = NoBinding
           /\ "CleanedUp" \in p.events

\* what the binding's status listed when the pass started, and what the
\* class the pass fetched lists
OldKeys == AppliedKeys(p.b.status.appliedResources)
NewKeys == DesiredKeys(p.class.resources)
SwitchPass ==
    /\ Returned
    /\ p.path \in {"switch", "update"}
    /\ p.result = "ok"
    /\ p.pre
    /\ Quiet
    /\ p.b.status.observedClassName \notin {"", p.b.className}
    /\ OldKeys # {}

\* C6 (switch correctness): after a successful pass that moved a caught-up
\* binding from class A to class B, every object only A listed was deleted
\* and is not owned by the binding, every object B lists exists, is owned by
\* the binding and has B's content, and an object both list was deleted and
\* then applied again.
SwitchCorrectness ==
    SwitchPass
        => /\ \A k \in OldKeys \ NewKeys :
                /\ k \in p.deleted
                /\ k \notin ManagedKeys(resources, binding.uid)
           /\ \A k \in NewKeys :
                /\ k \in ManagedKeys(resources, binding.uid)
                /\ resources[k].data = TemplateData(p.class.resources, k)
           /\ \A k \in OldKeys \cap NewKeys :
                /\ k \in p.patched
                /\ k \in p.deleted

\* C7 as stated (idempotence): when the previous pass returned success and
\* neither the class nor the binding's spec changed after its return, the
\* next pass patches nothing, deletes nothing and writes no status.
IdempotenceAfterReturn ==
    (Returned /\ p.follows \in {"clean", "mid"} /\ Quiet) => NoWrites

\* C7 (idempotence): when the previous pass returned success and neither the
\* class nor the binding's spec changed since that pass read them, the next
\* pass patches nothing, deletes nothing, writes no status, and leaves
\* status.appliedResources as it was.
Idempotence ==
    (Returned /\ p.follows = "clean" /\ Quiet)
        => /\ NoWrites
           /\ p.path # "readerr"
                => Status.appliedResources = p.b.status.appliedResources

\* the pass after a successful one found two applied objects and left them alone
IdempotenceWitness ==
    /\ Returned
    /\ p.follows = "clean"
    /\ Quiet
    /\ p.path = "skip"
    /\ Len(Status.appliedResources) = 2
    /\ Cardinality(ManagedKeys(resources, binding.uid)) = 2

\* Ready = True with reason ReconcileSuccess, as a pass that applied
\* q.applied from q.class words it
ReadyTrue(q) ==
    [status |-> TRUE, reason |-> reasonReconcileSuccess, message |-> SuccessMessage(q)]

\* C8 (status commit): a pass whose prune, applies and status write all
\* succeed leaves in the status the name and generation of the class it
\* read, the identities of the entries it applied, in apply order, and
\* Ready = True with reason ReconcileSuccess; Ready is never True with
\* another reason.
StatusCommit ==
    /\ (Returned /\ p.path \in {"switch", "update"} /\ p.result = "ok")
          => /\ Status.observedClassName = p.class.name
             /\ Status.observedClassGeneration = p.class.gen
             /\ Status.appliedResources = ExpectedApplied(p.class.resources)
             /\ Status.cond = ReadyTrue(p)
    /\ Status.cond.status => Status.cond.reason = reasonReconcileSuccess

\* C9 (caught-up invariant): whenever no pass is in flight and the status's
\* observed generation and name equal the class's generation and the desired
\* name, the keys of status.appliedResources equal the keys of the class.
CaughtUpInvariant ==
    (/\ p.pc = "idle"
     /\ binding.uid # 0
     /\ classes[binding.className] # NoClass
     /\ Status.observedClassGeneration = classes[binding.className].gen
     /\ Status.observedClassName = binding.className)
        => AppliedKeys(Status.appliedResources) = DesiredKeys(classes[binding.className].resources)

\* C10 (staleness check): a pass that fetched a class whose generation and
\* name equal the status's observed generation and name never enters the
\* switch, prune, apply or commit step; it returns success having deleted,
\* applied and written nothing and recorded no event.
StalenessCheck ==
    (/\ p.path # "none"
     /\ p.class.gen > 0
     /\ p.b.status.observedClassGeneration = p.class.gen
     /\ p.b.status.observedClassName = p.class.name)
        => /\ p.pc = "idle"
           /\ p.path = "skip"
           /\ p.result = "ok"
           /\ NoWrites
           /\ p.patched = {}
           /\ p.calls = <<>>
           /\ p.events = {}

\* an up-to-date binding with an applied object was skipped
StalenessCheckWitness ==
    /\ Returned
    /\ p.path = "skip"
    /\ p.class.gen = 2
    /\ Len(p.b.status.appliedResources) > 0
    /\ p.events = {}

(* ---------------------- Namespace controller claims -------------------- *)
\* the state right after a Namespace controller pass returned, and after one
\* none of whose store calls failed
WatchReturned == w.pc = "idle" /\ w.result # "none"
WatchClean == WatchReturned /\ w.fail = "none"

\* C15 (watcher create): a pass that read a namespace that is not being
\* deleted and carries label L, and found no binding, makes exactly one
\* write, which creates the binding named after the namespace, in it, with
\* className L, an empty status and the namespace as controller owner.
WatcherCreate ==
    (/\ WatchClean
     /\ w.ns = "present"
     /\ w.label # ""
     /\ w.before = NoBinding)
        => /\ w.result = "ok"
           /\ w.writes = 1
           /\ binding.uid # 0
           /\ binding.name = NsName
           /\ binding.owner = NsName
           /\ binding.className = w.label
           /\ binding.status = EmptyStatus

\* a binding was created for label B
WatcherCreateWitness ==
    /\ WatchClean
    /\ w.path = "create"
    /\ w.before = NoBinding
    /\ w.label = "B"
    /\ binding.uid # 0
    /\ binding.className = "B"

\* C16 (watcher update in place): a pass that read a namespace that is not
\* being deleted and carries label L, and a binding naming another class,
\* makes exactly one write, after which the stored binding is the same
\* object (uid, name, owner, status) with className L.
WatcherUpdate ==
    (/\ WatchClean
     /\ w.ns = "present"
     /\ w.label # ""
     /\ w.before.uid # 0
     /\ w.before.className # w.label)
        => /\ w.result = "ok"
           /\ w.writes = 1
           /\ binding.uid = w.before.uid
           /\ binding.name = w.before.name
           /\ binding.owner = w.before.owner
           /\ binding.status = w.before.status
           /\ binding.className = w.label

\* a binding that had already applied class A was pointed at class B
WatcherUpdateWitness ==
    /\ WatchClean
    /\ w.path = "update"
    /\ w.before.className = "A"
    /\ w.before.status.observedClassName = "A"
    /\ Len(w.before.status.appliedResources) > 0
    /\ binding.className = "B"
    /\ binding.uid = w.before.uid

\* C17 (watcher no-ops): a pass makes no write, records no event and returns
\* success when the namespace it read does not exist, when it is marked for
\* deletion (whatever its label and binding), when it has no label and no
\* binding is found, and when its label equals the className of the binding
\* found.
WatcherNoop ==
    (/\ WatchClean
     /\ \/ w.ns = "absent"
        \/ w.ns = "terminating"
        \/ w.ns = "present" /\ w.label = "" /\ w.before.uid = 0
        \/ w.ns = "present" /\ w.label # "" /\ w.before.uid # 0
                            /\ w.before.className = w.label)
        => /\ w.result = "ok"
           /\ w.writes = 0
           /\ w.events = <<>>
           /\ binding = w.before

\* a namespace marked for deletion, labelled and without binding, was left alone
WatcherNoopWitness ==
    /\ WatchClean
    /\ w.ns = "terminating"
    /\ label # ""
    /\ w.before = NoBinding
    /\ binding = NoBinding
    /\ w.result = "ok"

OneBindingPerNamespaceStep ==
    /\ binding'.uid # 0 => binding'.name = NsName /\ binding'.owner = NsName
    /\ (binding'.uid # 0 /\ binding'.uid # binding.uid) => binding.uid = 0

\* C18 (one binding per namespace): the binding of the namespace, when there
\* is one, is named after the namespace and has it as controller owner, and
\* a binding comes into existence only when none is stored: no step replaces
\* a stored binding by another one or adds a second.
OneBindingPerNamespace == [][OneBindingPerNamespaceStep]_vars

\* the label was removed and added again: the second binding of the
\* namespace's life is the only one stored
OneBindingPerNamespaceWitness ==
    /\ WatchClean
    /\ w.path = "create"
    /\ binding.uid = 2
    /\ binding.name = NsName
    /\ binding.owner = NsName

\* C19 (watcher failure policy): a pass one of whose store calls (reading
\* the namespace, reading the binding, creating, updating or deleting the
\* binding) fails with an error other than not-found returns that error and
\* has written nothing.
WatcherFailurePolicy ==
    (WatchReturned /\ w.fail # "none")
        => /\ w.result = "err"
           /\ w.writes = 0

\* C20 (watcher signals): a pass that wrote the binding recorded exactly one
\* event, of the kind of the write (created, updated, removed); a pass that
\* wrote nothing recorded none.
WatcherSignals ==
    WatchReturned =>
        /\ w.writes = 0 => w.events = <<>>
        /\ w.writes = 1 =>
              /\ Len(w.events) = 1
              /\ w.path = "create" => w.events[1] = "BindingCreated"
              /\ w.path = "update" => w.events[1] = "BindingUpdated"
              /\ w.path = "delete" => w.events[1] = "BindingRemoved"

(* ------------------------- end-to-end claims --------------------------- *)
\* a NamespaceClass named n was created, updated or deleted in this step
ClassEvent(n) == classes'[n] # classes[n]

FanOutStep ==
    \A n \in ClassNames :
        ClassEvent(n) =>
            IF binding.uid # 0 /\ binding.className = n
            THEN queued'
            ELSE queued' = queued

\* C14 (fan-out): every create, update or delete of NamespaceClass X queues
\* a pass for the binding when its className is X at that time, and queues
\* nothing when its className differs.
FanOut == [][FanOutStep]_vars

\* the label was removed from a namespace that has a binding, and the
\* Namespace controller's request for it is pending
LabelRemoved ==
    /\ nsState = "present"
    /\ label = ""
    /\ binding.uid # 0
    /\ nsQueued

\* no binding is stored and no object carries a binding's owner reference
BindingAndResourcesGone ==
    /\ binding.uid = 0
    /\ \A k \in Keys : Exists(resources, k) => resources[k].owner = 0

\* C12 (label removal): once the label is removed from a namespace that has
\* a binding, the binding is eventually deleted and every object it owned is
\* eventually absent, unless a label is set again in the meantime.
LabelRemoval == LabelRemoved ~> (BindingAndResourcesGone \/ label # "")

\* C13 (missing class): a pass that finds no NamespaceClass of the name the
\* binding carries, while the namespace keeps that label, leaves the binding
\* stored with Ready=False, reason ClassNotFound (so that creating the class
\* later finds a binding to reconcile).
MissingClass ==
    (/\ Returned
     /\ p.path = "notfound"
     /\ p.result = "ok"
     /\ ~p.touched
     /\ Undisturbed
     /\ nsState = "present"
     /\ label = p.b.className)
        => /\ binding.uid = p.b.uid
           /\ ~binding.status.cond.status
           /\ binding.status.cond.reason = reasonClassNotFound

\* the namespace is not being deleted, carries a label, and the
\* NamespaceClass of that name exists
Selects ==
    /\ nsState = "present"
    /\ label # ""
    /\ classes[label] # NoClass

\* the binding names the label's class, every entry of the class exists in
\* the namespace, and the binding is caught up
EndToEndApplied ==
    /\ Selects
    /\ binding.uid # 0
    /\ binding.className = label
    /\ \A k \in DesiredKeys(classes[label].resources) : Exists(resources, k)
    /\ binding.status.observedClassName = label
    /\ binding.status.observedClassGeneration = classes[label].gen

\* C11 (end-to-end apply): under fair scheduling of both controllers and
\* with no store failure, a namespace that is not being deleted and carries
\* label L while NamespaceClass L exists eventually has a binding naming L,
\* every entry of L as an object, and a caught-up status (unless the label
\* is removed, the class deleted or the namespace deleted first).
EndToEndApply ==
    (Selects /\ failures = 0)
        ~> (EndToEndApplied \/ ~Selects \/ failures > 0)

\* the apply step made a store call for key k
Attempted(q, k) == \E j \in 1..Len(q.calls) : q.calls[j][2] = k
\* the apply step made the store call c for key k
HasCall(q, c, k) == \E j \in 1..Len(q.calls) : q.calls[j] = <<c, k>>
\* key k is the key of exactly one complete entry of the list
SoleEntry(raws, k) == Cardinality({i \in Appliable(raws) : RawKey(raws[i]) = k}) = 1

\* a store call of the apply step
ApplyCall == p.pc \in ApplyPcs /\ p'.calls # p.calls
\* the apply step of a pass ends with this step: every entry is applied
\* (the status write comes next) or the apply of an entry has failed
ApplyStep == p.pc \in ApplyPcs /\ p'.pc \notin ApplyPcs
ApplyDone == ApplyStep /\ p'.pc = "commit"
ApplyFailed == ApplyStep /\ p'.step = "apply"

ConflictLadderStep ==
    (ApplyStep /\ ~p'.storeFail) =>
        \A i \in Appliable(p.class.resources) :
            LET raw == p.class.resources[i]
                k == RawKey(raw)
            IN  (/\ SoleEntry(p.class.resources, k)
                 /\ p.start[k] # NoRes
                 /\ p.start[k].held
                 /\ p.start[k].data # raw.data
                 /\ Attempted(p', k))
                => /\ k \in p'.patched
                   /\ resources'[k].data = raw.data

\* C21 (conflict ladder outcome): when no store call fails for another
\* reason, the apply of an entry (the only one of its key in the list) to an
\* existing object whose content is held by another field manager succeeds,
\* and afterwards the object has the entry's content.
ConflictLadder == [][ConflictLadderStep]_vars

\* the read-back of the recreate tier for key k failed
ReadBackFailed(q, k) ==
    /\ q.storeFail
    /\ q.calls # <<>>
    /\ q.calls[Len(q.calls)] = <<"get", k>>

RecreateGateStep ==
    ApplyStep =>
        \A k \in { x \in Keys : SoleEntry(p.class.resources, x) } :
            /\ HasCall(p', "delete", k) => p.start[k].owner = p.b.uid
            /\ (HasCall(p', "get", k) /\ (p.start[k].owner # p.b.uid \/ ReadBackFailed(p', k)))
               => /\ p'.step = "apply"
                  /\ ~HasCall(p', "delete", k)
                  /\ resources'[k] = p.start[k]

\* C22 (recreate safety gate): the recreate tier deletes an existing object
\* (of a key the list has one entry for) only if it carries a controller
\* owner reference to the binding being reconciled; when the read-back fails
\* or shows no such reference the apply returns an error, nothing is deleted
\* or created, and the object is unchanged.
RecreateGate == [][RecreateGateStep]_vars

\* the pass that just returned gave up in switch cleanup, prune or apply
Aborted ==
    /\ Returned
    /\ p.result = "err"
    /\ p.step \in {"switch", "prune", "apply"}

\* C23 (abort leaves the observed state): after a pass that returned an
\* error from switch cleanup, prune or apply, the binding it worked on has
\* the observedClassName, observedClassGeneration and appliedResources it
\* had when the pass fetched it.
AbortFrame ==
    (Aborted /\ binding.uid = p.b.uid)
        => /\ Status.observedClassName = p.b.status.observedClassName
           /\ Status.observedClassGeneration = p.b.status.observedClassGeneration
           /\ Status.appliedResources = p.b.status.appliedResources

\* an inline pass on a binding with a non-empty status failed in apply and
\* wrote its Ready condition
AbortFrameWitness ==
    /\ Aborted
    /\ binding.uid = p.b.uid
    /\ p.step = "apply"
    /\ p.statusWrites = 1
    /\ p.b.status.appliedResources # <<>>
    /\ p.deleted # {}

\* the Ready reasons the controller may record
ReadyReasons == {reasonClassNotFound, reasonPruneFailed, reasonApplyFailed, reasonReconcileSuccess}

\* C24 (abort is recorded): after a pass that returned an error from prune
\* or apply, the binding's Ready condition is false with reason PruneFailed
\* or ApplyFailed respectively, and the reason of a Ready condition
\* is always one of ClassNotFound, PruneFailed, ApplyFailed, ReconcileSuccess.
AbortCondition ==
    /\ (Aborted /\ p.step \in {"prune", "apply"} /\ binding.uid = p.b.uid)
          => /\ ~Status.cond.status
             /\ Status.cond.reason = IF p.step = "prune" THEN reasonPruneFailed
                                     ELSE reasonApplyFailed
    /\ (binding.uid # 0 /\ Status.cond # NoCond) => Status.cond.reason \in ReadyReasons

\* the Patch call of a status write is answered without a store failure
PatchStep == p.pc = "patch" /\ p'.pc # "patch" /\ p'.storeFail = p.storeFail

OptimisticStatusStep ==
    PatchStep =>
        /\ binding.status # p.base => (binding' = binding /\ p'.pc \in {"commit", "cond"})
        /\ \A f \in DOMAIN p.base :
             binding.status[f] # p.base[f] => binding'.status[f] = binding.status[f]

\* C25 (optimistic status write): a status write whose object was modified
\* by another writer between its read and its write is rejected and starts
\* again from a fresh read, and no write changes a field whose stored value
\* is not the one it read.
OptimisticStatus == [][OptimisticStatusStep]_vars

\* a pass of the helper-based controller that fetched its binding and its class
Decided == variant = "modular" /\ p.path \in {"switch", "update", "skip"}

\* C28 (switch detection): the helper-based pass treats its binding as
\* switching classes exactly when the binding's observedClassName is
\* non-empty, its appliedResources is non-empty, and observedClassName
\* differs from the name of the class fetched.
SwitchDetection ==
    Decided =>
        (p.path = "switch"
            <=> /\ p.b.status.observedClassName # ""
                /\ p.b.status.appliedResources # <<>>
                /\ p.b.status.observedClassName # p.class.name)

\* a pass on a binding applied from class A found the switch to class B
SwitchDetectionWitness ==
    /\ Decided
    /\ p.path = "switch"
    /\ p.b.status.observedClassName = "A"
    /\ p.class.name = "B"

\* the pass fetched a binding whose observed generation or observed name
\* is not that of the class it names
Behind ==
    /\ p.path \in {"switch", "update", "skip"}
    /\ \/ p.b.status.observedClassGeneration # p.class.gen
       \/ p.b.status.observedClassName # p.b.className

\* C29 (no skip while behind): a pass is not skipped when the observed
\* generation differs from the class's generation, in either direction, or
\* the observed name differs from the desired one; such a pass that returns
\* success has applied every entry of the class and committed the class's
\* name and generation.
NoSkip ==
    /\ Behind => p.path # "skip"
    /\ (Behind /\ Returned /\ p.result = "ok" /\ binding.uid = p.b.uid)
          => /\ DesiredKeys(p.class.resources) \subseteq p.patched
             /\ Status.observedClassName = p.class.name
             /\ Status.observedClassGeneration = p.class.gen

\* a binding caught up with class A at generation 1 was pointed at class B,
\* also at generation 1, and the pass applied and committed B
NoSkipWitness ==
    /\ Returned
    /\ p.result = "ok"
    /\ p.b.status.observedClassName = "A"
    /\ p.b.className = "B"
    /\ p.b.status.observedClassGeneration = p.class.gen
    /\ p.patched # {}
    /\ p.statusWrites = 1
    /\ Status.observedClassName = "B"

\* the keys of the fetched binding's appliedResources that the fetched
\* class does not list
Removed(q) ==
    { k \in AppliedKeys(q.b.status.appliedResources) : k \notin DesiredKeys(q.class.resources) }

\* the prune step ends with this step without an error
PruneDone == p.pc = "prune" /\ p'.pc # "prune" /\ p'.step # "prune"

PruneExactStep ==
    p.pc = "prune" =>
        /\ p'.pruned \subseteq Removed(p)
        /\ \A k \in Keys \ Removed(p) : resources'[k] = resources[k]
        /\ \A k \in Keys \ p'.pruned : resources'[k] = resources[k]
        /\ PruneDone => /\ p'.pruned = Removed(p)
                        /\ \A k \in Removed(p) : resources'[k] = NoRes

\* C30 (prune is exact): the prune step deletes no object other than those
\* of the previous appliedResources entries whose key the class no longer
\* lists, and when it returns success it has deleted every one of them, an
\* already absent object counting as deleted.
PruneExact == [][PruneExactStep]_vars

\* a prune step has deleted one previously applied object and kept another
\* that the class still lists
PruneExactWitness ==
    /\ p.pc = "apply"
    /\ p.calls = <<>>
    /\ p.pruned # {}
    /\ \E k \in AppliedKeys(p.b.status.appliedResources) \cap DesiredKeys(p.class.resources) :
         Exists(resources, k)
    /\ \A k \in p.pruned : ~Exists(resources, k)

PlacementStep ==
    /\ (p.pc \in ApplyPcs /\ p'.applied # p.applied) =>
            /\ resources'[EntryKey(p)].ns = NsName
            /\ resources'[EntryKey(p)].owner = p.b.uid
            /\ \A k \in Keys \ {EntryKey(p)} : resources'[k] = resources[k]
    /\ \A k \in Keys :
         (binding'.uid # 0 /\ resources'[k].owner = binding'.uid)
            => resources'[k].ns = NsName

\* C26 (placement and ownership): every object the apply step creates or
\* updates is afterwards in the binding's namespace, whatever namespace its
\* entry names, with the binding as controller owner; so every object owned
\* by the stored binding is in the binding's namespace.
Placement == [][PlacementStep]_vars

\* an entry naming another namespace was applied into the binding's namespace
PlacementWitness ==
    /\ p.pc = "commit"
    /\ \E i \in Appliable(p.class.resources) :
         /\ p.class.resources[i].namespace = "other"
         /\ RawKey(p.class.resources[i]) \in p.patched
         /\ resources[RawKey(p.class.resources[i])].ns = NsName
         /\ resources[RawKey(p.class.resources[i])].owner = p.b.uid

WriteSetsStep ==
    /\ NamespaceReconcile
         => /\ binding' # binding
                 => (w.pc = "write" /\ w.writes = 0 /\ w'.pc = "idle" /\ w'.writes = 1)
            /\ w'.writes <= 1
            /\ resources' = resources
            /\ classes' = classes
            /\ label' = label /\ nsState' = nsState
    /\ BindingReconcile
         => /\ binding.uid = 0 => binding'.uid = 0
            /\ binding'.uid # 0 => /\ binding'.uid = binding.uid
                                   /\ binding'.className = binding.className
            /\ classes' = classes
            /\ label' = label /\ nsState' = nsState

\* C27 (write sets): a pass of the Namespace controller makes at most one
\* write, to the binding, and changes no other object; a step of the
\* binding controller neither creates a binding nor changes a binding's
\* desired class name; neither changes a NamespaceClass or the namespace.
WriteSets == [][WriteSetsStep]_vars

\* the Namespace controller changed the desired class of a binding whose
\* objects exist, and a binding pass has since written status and objects
WriteSetsWitness ==
    /\ Returned
    /\ p.result = "ok"
    /\ p.statusWrites = 1
    /\ p.patched # {}
    /\ p.deleted # {}
    /\ p.b.status.observedClassName \notin {"", p.b.className}
    /\ binding.className = p.b.className

SwitchOrderStep ==
    /\ p.pc = "switch" => (p.patched = {} /\ p.calls = <<>>)
    /\ (p.path = "switch" /\ p.pc \in ApplyPcs)
         => \A k \in AppliedKeys(p.b.status.appliedResources) :
               /\ k \in p.deleted
               /\ p.start[k] = NoRes
    /\ (p.pc = "switch" /\ p'.pc = "idle")
         => /\ p'.result = "err"
            /\ p'.patched = {} /\ p'.calls = <<>>
            /\ \A k \in Keys : resources'[k] \in {resources[k], NoRes}

\* C31 (switch order): in a pass that found a class switch, every object of
\* the previous appliedResources has been deleted (or found absent) before
\* the first entry of the new class is applied, and when one of those
\* deletions fails the pass returns the error without applying any entry.
SwitchOrder == [][SwitchOrderStep]_vars

\* a switching pass deleted an object of the old class and then applied the
\* new class's entry of the same key as a new object
SwitchOrderWitness ==
    /\ p.pc = "commit"
    /\ p.path = "switch"
    /\ p.deleted \cap p.created # {}
    /\ AppliedKeys(p.b.status.appliedResources) \subseteq p.deleted

\* the keys of the complete entries of a list, in list order
EntryKeys(raws) ==
    LET c == SelectSeq(raws, LAMBDA r : IsComplete(extractMetaOnly(r)))
    IN  [i \in 1..Len(c) |-> RawKey(c[i])]

\* the keys of the entries the apply step started on, in the order of
\* their first store call
StartedKeys(q) ==
    LET first == IF variant = "modular" THEN "patch" ELSE "forcePatch"
        c == SelectSeq(q.calls, LAMBDA x : x[1] = first)
    IN  [i \in 1..Len(c) |-> c[i][2]]

ApplyOrderStep ==
    p.pc \in ApplyPcs =>
        /\ Len(StartedKeys(p')) <= Len(EntryKeys(p.class.resources))
        /\ StartedKeys(p') = SubSeq(EntryKeys(p.class.resources), 1, Len(StartedKeys(p')))
        /\ ApplyDone
             => /\ StartedKeys(p') = EntryKeys(p.class.resources)
                /\ \A k \in DesiredKeys(p.class.resources) :
                     resources'[k].data = TemplateData(p.class.resources, k)

\* C32 (apply order): the apply step starts on the class's entries in list
\* order, and after an apply step that succeeded an object for which the
\* class has two entries has the content of the later one.
ApplyOrder == [][ApplyOrderStep]_vars

\* the apply step went through two entries of the same key
ApplyOrderWitness ==
    /\ p.pc = "commit"
    /\ Len(StartedKeys(p)) = 2
    /\ StartedKeys(p)[1] = StartedKeys(p)[2]
    /\ resources[StartedKeys(p)[2]].data = p.class.resources[2].data
    /\ p.class.resources[1].data # p.class.resources[2].data

\* the entries of the class before the one the apply step is at, and the
\* entries up to it
Before(q) == SubSeq(q.class.resources, 1, q.i - 1)
UpTo(q) == SubSeq(q.class.resources, 1, q.i)

ApplyAbortStep ==
  /\ ApplyDone =>
        \A k \in DesiredKeys(p.class.resources) :
            /\ k \in p'.patched
            /\ resources'[k].owner = p.b.uid
            /\ resources'[k].data = TemplateData(p.class.resources, k)
  /\ ApplyFailed =>
        /\ p'.i \in {p.i, NextEntry(p.class.resources, p.i + 1)}
        /\ p'.pc = IF variant = "modular" THEN "idle" ELSE "cond"
        /\ variant = "modular" => p'.result = "err"
        /\ \A j \in 1..Len(p'.calls) : p'.calls[j][2] \in DesiredKeys(UpTo(p'))
        /\ \A k \in DesiredKeys(Before(p')) :
             k # EntryKey(p')
               => /\ k \in p'.patched
                  /\ resources'[k].owner = p.b.uid
                  /\ resources'[k].data = TemplateData(Before(p'), k)
        /\ \A k \in Keys \ DesiredKeys(UpTo(p')) : resources'[k] = p.start[k]
  /\ (p.pc \in {"cond", "patch"} /\ p.step = "apply" /\ p'.pc = "idle")
        => (p'.result = "err" /\ p'.step = "apply")

\* C33 (apply abort): when the apply of an entry fails, the pass returns
\* the error from the apply step (a pass goes on only when every entry's
\* object is in place), the entries before it stay applied, and no store
\* call is made for an entry after it.
ApplyAbort == [][ApplyAbortStep]_vars

\* the apply of the second entry failed after the first one was applied,
\* and the first one's object is in the namespace
ApplyAbortWitness ==
    /\ Returned
    /\ p.result = "err"
    /\ p.step = "apply"
    /\ Len(StartedKeys(p)) = 2
    /\ StartedKeys(p)[1] # StartedKeys(p)[2]
    /\ p.patched = {StartedKeys(p)[1]}
    /\ resources[StartedKeys(p)[1]].owner = p.b.uid
    /\ resources[StartedKeys(p)[1]].data = p.class.resources[1].data

\* the list has an entry that is empty or lacks apiVersion, kind or name,
\* and none of its entries is malformed or names a controller of its own
HasIncompleteEntry(raws) ==
    /\ \E i \in 1..Len(raws) : ~Malformed(raws[i]) /\ ~IsComplete(extractMetaOnly(raws[i]))
    /\ \A i \in 1..Len(raws) : ~Malformed(raws[i]) /\ ~AlreadyOwned(raws[i])

\* C34 (incomplete entries are skipped): a pass on a class with an entry
\* that is empty or lacks apiVersion, kind or name, none of whose store
\* calls fails, fails neither in prune nor in apply; when it returns success
\* the other entries are applied and appliedResources lists them and not
\* the skipped entry.
SkipIncomplete ==
    (/\ Returned
     /\ p.path \in {"switch", "update"}
     /\ HasIncompleteEntry(p.class.resources)
     /\ ~p.storeFail
     /\ binding.uid = p.b.uid)
        => /\ p.step \notin {"prune", "apply"}
           /\ p.result = "ok"
                => /\ DesiredKeys(p.class.resources) \subseteq p.patched
                   /\ Status.appliedResources = ExpectedApplied(p.class.resources)

\* the store calls the apply step made for key k, in order
CallsFor(q, k) ==
    LET c == SelectSeq(q.calls, LAMBDA x : x[2] = k)
    IN  [i \in 1..Len(c) |-> c[i][1]]

\* another field manager holds content of the stored object that the
\* manifest changes
OwnershipConflict(obj, raw) == obj # NoRes /\ obj.held /\ obj.data # raw.data

\* the stored object is immutable and the manifest changes it
ImmutableChange(obj, raw) ==
    /\ obj # NoRes
    /\ obj.immutable
    /\ (obj.data # raw.data \/ obj.immutable # raw.immutable)

LadderGatingStep ==
    (ApplyStep /\ variant = "modular") =>
        \A i \in Appliable(p.class.resources) :
            LET raw == p.class.resources[i]
                k == RawKey(raw)
                obj == p.start[k]
                recreated == \/ HasCall(p', "get", k)
                             \/ HasCall(p', "delete", k)
                             \/ HasCall(p', "create", k)
            IN  (SoleEntry(p.class.resources, k) /\ Attempted(p', k))
                => /\ CallsFor(p', k)[1] = "patch"
                   /\ HasCall(p', "forcePatch", k) => OwnershipConflict(obj, raw)
                   /\ recreated => (ImmutableChange(obj, raw) /\ ~OwnershipConflict(obj, raw))
                   /\ (~OwnershipConflict(obj, raw) /\ ~ImmutableChange(obj, raw))
                      => CallsFor(p', k) = <<"patch">>

\* C35 (ladder gating): in the helper-based apply of an entry the first store
\* call is the unforced patch; the forced patch is issued only when another
\* field manager holds content the entry changes; the delete-and-recreate is
\* started only when the stored object is immutable and the entry changes it;
\* in every other case, success or error, the unforced patch is the only
\* store call made for the entry.
LadderGating == [][LadderGatingStep]_vars

\* the position of the store call c for key k in the calls of the apply step
\* (0 when it was not made)
CallAt(q, c, k) ==
    IF HasCall(q, c, k)
    THEN CHOOSE j \in 1..Len(q.calls) : q.calls[j] = <<c, k>>
    ELSE 0

\* the apply step ended in the wait of the recreate of key k
WaitFailed(q, k) ==
    /\ q.step = "apply"
    /\ q.errKind \in {"timeout", "cancelled"}
    /\ q.calls # <<>>
    /\ q.calls[Len(q.calls)][2] = k

\* the last Get of the wait in hand was not answered not-found
LastPollLingering(q) ==
    /\ q.calls # <<>>
    /\ q.calls[Len(q.calls)][1] \in Lingering

RecreateWaitStep ==
    /\ p.pc \in {"wait", "sleep"} => p'.polls <= MaxPolls
    /\ (p.pc \notin {"wait", "sleep"} /\ p'.pc = "wait") => p'.polls = 0
    /\ (p.pc # "create" /\ p'.pc = "create")
         => /\ p.pc = "wait"
            /\ ~Exists(resources, EntryKey(p))
            /\ p'.calls[Len(p'.calls)] = <<"pollAbsent", EntryKey(p)>>
    /\ p.pc = "create" => p.calls[Len(p.calls)] = <<"pollAbsent", EntryKey(p)>>
    /\ (p.pc = "sleep" /\ p'.pc # "sleep" /\ p.calls[Len(p.calls)][1] = "pollCancelled")
         => /\ p'.pc # "wait"
            /\ p'.step = "apply"
            /\ p'.errKind = "cancelled"
    /\ ApplyStep =>
        \A k \in { x \in Keys : SoleEntry(p.class.resources, x) } :
            /\ HasCall(p', "create", k)
                 => /\ CallAt(p', "create", k) > 1
                    /\ p'.calls[CallAt(p', "create", k) - 1] = <<"pollAbsent", k>>
            /\ WaitFailed(p', k)
                 => /\ p.pc = "sleep"
                    /\ ~HasCall(p', "create", k)
                    /\ ~HasCall(p', "pollAbsent", k)
                    /\ LastPollLingering(p')
                    /\ k \notin p'.patched
                    /\ resources'[k] = resources[k]
                    /\ p'.errKind = "timeout" => p'.polls = MaxPolls
                    /\ p'.errKind = "cancelled" => p'.polls <= MaxPolls

\* C36 (recreate wait): in the recreate of an entry (the only one of its
\* key in the list) the final Patch that creates the object again directly
\* follows a Get that answered not-found; the wait makes at most MaxPolls
\* Gets; when it ends with a timeout (after MaxPolls Gets none of which was
\* answered not-found) or because the context was cancelled (at the select
\* that follows the Get which met the cancelled context, or during a
\* sleep), the wait's last Get is the step's last store call and the object
\* is not created.
RecreateWait == [][RecreateWaitStep]_vars

\* a recreate that created the object again after a Get found it absent
RecreateWaitWitness ==
    /\ variant = "modular"
    /\ p.pc = "commit"
    /\ \E k \in Keys :
         /\ HasCall(p, "pollAbsent", k)
         /\ HasCall(p, "create", k)
         /\ k \in p.patched

\* a recreate whose wait timed out after MaxPolls Gets
RecreateTimeoutWitness ==
    /\ Returned
    /\ p.result = "err"
    /\ p.errKind = "timeout"
    /\ p.polls = MaxPolls

\* a recreate whose wait was cancelled during the first sleep
RecreateCancelWitness ==
    /\ Returned
    /\ p.result = "err"
    /\ p.errKind = "cancelled"
    /\ p.polls = 1
    /\ HasCall(p, "pollPresent", EntryKey(p))

\* a recreate whose wait met a cancelled context after the object was gone:
\* the error is returned and the object is not created
RecreateCancelledGetWitness ==
    /\ Returned
    /\ p.result = "err"
    /\ p.errKind = "cancelled"
    /\ HasCall(p, "pollCancelled", EntryKey(p))
    /\ HasCall(p, "delete", EntryKey(p))
    /\ ~Exists(resources, EntryKey(p))

\* the pass has started the handling of a class that is not found
InCleanup(q) ==
    \/ q.pc \in {"notfound", "deleteBinding"}
    \/ q.pc \in {"cond", "patch"} /\ q.write = reasonClassNotFound

ReadFailureStep ==
    /\ BeginPass =>
        /\ (binding.uid = 0 /\ p'.path # "readerr")
             => (p'.path = "nobinding" /\ p'.result = "ok")
    /\ (BeginPass \/ FetchClass) =>
        /\ p'.path = "readerr" => p'.result = "err"
        /\ p'.path \in {"nobinding", "readerr"}
             => /\ p'.pc = "idle"
                /\ UNCHANGED <<resources, binding>>
                /\ p'.calls = <<>>
                /\ p'.deleted = {}
                /\ p'.patched = {}
                /\ p'.statusWrites = 0
                /\ ~p'.bindingDeleted
                /\ p'.events = {}
    /\ (InCleanup(p') /\ ~InCleanup(p))
         => /\ FetchClass
            /\ p.b.uid # 0
            /\ classes[p.b.className] = NoClass
            /\ p'.path = "notfound"
    /\ (p'.bindingDeleted /\ ~p.bindingDeleted) => p.path = "notfound"
    /\ (BindingReconcile /\ binding' # binding /\ binding'.uid = 0) => p.path = "notfound"

\* C37 (read failures): a pass that finds no binding returns success, and
\* a pass whose read of the binding or of the class fails with another
\* error returns the error; neither deletes or applies an object, writes
\* status, records an event or deletes the binding. The cleanup of the
\* class-not-found path starts only when the binding exists and the class
\* it names does not, and only that path deletes the binding.
ReadFailure == [][ReadFailureStep]_vars

\* the read of the class failed while the binding has applied objects
ReadFailureWitness ==
    /\ Returned
    /\ p.path = "readerr"
    /\ p.step = "getClass"
    /\ p.result = "err"
    /\ binding.uid # 0
    /\ ManagedKeys(resources, binding.uid) # {}

\* a pass found no binding
NoBindingWitness ==
    /\ Returned
    /\ p.path = "nobinding"
    /\ p.result = "ok"

\* a step of the class-not-found handling of the helper-based controller
CleanupStep ==
    /\ variant = "modular"
    /\ p.pc \in {"notfound", "deleteBinding"}
    /\ p'.pc # p.pc \/ p'.i # p.i

CleanupFailureStep ==
    CleanupStep =>
        LET old == AppliedKeys(p.b.status.appliedResources) IN
        /\ (p.pc = "notfound" /\ p'.deleted = p.deleted /\ p.b.status.appliedResources[p.i] \notin
                { p.b.status.appliedResources[j] : j \in 1..(p.i - 1) })
             => /\ p'.pc = "idle"
                /\ p'.result = "err"
                /\ binding' = binding
                /\ ~p'.bindingDeleted
                /\ "CleanedUp" \notin p'.events
                /\ queued'
        /\ (p'.pc = "idle" /\ ~(old \subseteq p'.deleted))
             => /\ p'.result = "err"
                /\ binding' = binding
                /\ ~p'.bindingDeleted
                /\ "CleanedUp" \notin p'.events
                /\ queued'
        /\ p'.pc = "deleteBinding" => old \subseteq p'.deleted
        /\ binding' # binding
             => /\ p.pc = "deleteBinding"
                /\ binding' = NoBinding
                /\ old \subseteq p'.deleted
        /\ "CleanedUp" \in p'.events
             => (p'.result = "ok" /\ binding' = NoBinding)

\* C38 (cleanup failure): in handleNamespaceClassDeleted, when the Delete of
\* a listed object fails with an error other than not-found, the pass
\* returns the error and is queued again, the binding is left as stored
\* (appliedResources included) and no CleanedUp event is recorded; the
\* binding is deleted only when every listed object has been deleted or
\* found absent, and CleanedUp is recorded only after the binding is deleted.
CleanupFailure == [][CleanupFailureStep]_vars

\* the Delete of the second of two listed objects failed
CleanupFailureWitness ==
    /\ Returned
    /\ variant = "modular"
    /\ p.path = "notfound"
    /\ p.result = "err"
    /\ p.step = "cleanup"
    /\ binding = p.b
    /\ Cardinality(p.deleted) = 1
    /\ ~(AppliedKeys(p.b.status.appliedResources) \subseteq p.deleted)

\* nothing is queued or in flight and the garbage collector has nothing to do
Settled ==
    /\ ~queued
    /\ ~nsQueued
    /\ p.pc = "idle"
    /\ w.pc = "idle"
    /\ \A k \in Keys :
         (Exists(resources, k) /\ resources[k].owner > 0) => resources[k].owner = binding.uid

\* the namespace holds exactly what class n lists, applied for the binding
HoldsExactly(n) ==
    /\ ManagedKeys(resources, binding.uid) = DesiredKeys(classes[n].resources)
    /\ \A k \in DesiredKeys(classes[n].resources) :
         resources[k].data = TemplateData(classes[n].resources, k)

\* the write of a pass's status: the stored binding keeps its desired class
\* name and its uid, and a binding that is not stored stays absent
StatusWriteKeepsSpecStep ==
    (p.pc \in {"commit", "cond", "patch"} /\ BindingReconcile)
        => /\ binding'.className = binding.className
           /\ binding'.uid = binding.uid

StatusWriteKeepsSpec == [][StatusWriteKeepsSpecStep]_vars

\* C39 (label change beside a pass): after the label was changed from A to
\* B or removed while a request for the binding naming A was queued or in
\* flight, once every queued request has been handled with no store failure
\* and the garbage collector is done, the binding names B and the namespace
\* holds exactly B's objects, or (label removed) there is no binding and no
\* object applied for one.
RaceOutcome ==
    (Settled /\ failures = 0)
        => IF label = "B"
           THEN /\ binding.uid # 0
                /\ binding.className = "B"
                /\ HoldsExactly("B")
           ELSE /\ binding = NoBinding
                /\ \A k \in Keys : Exists(resources, k) => resources[k].owner = 0

RecreatedTemplateStep ==
    (FetchClass /\ p'.path = "skip")
        => p.b.status.appliedResources
             = ExpectedApplied(classes[p.b.className].resources)

\* C40 (re-created class): a pass returns "up to date" without reconciling
\* only when the binding's appliedResources are the entries of the class as
\* it is stored now; in particular not after the class was deleted and
\* created again under the same name with another list.
RecreatedTemplate == [][RecreatedTemplateStep]_vars

====
